---- MODULE Spec2Model ----
(***************************************************************************)
(* The MCP bridge of pulsar-mcp: the tool executor (registry generation    *)
(* and tools.js generation), the JSON-RPC handler of POST /mcp with its    *)
(* batches, the session map, and the external tool map.                    *)
(***************************************************************************)
EXTENDS Integers, Sequences, FiniteSets, TLC

VARIABLES
    sessions,          \* bridge.js `sessions`: session id -> session record
    issued,            \* every id crypto.randomUUID() has returned so far
    externalToolsMap,  \* bridge.js `externalToolsMap`, in insertion order
    editor,            \* the editor the built-in tools act on (atom.workspace)
    disposables,       \* main.js: the names each Disposable still has to unregister
    inflight,          \* HTTP requests whose handler is suspended on an await
    last,              \* the HTTP exchange the latest step answered
    active,            \* main.js: the package is activated
    bridge,            \* main.js `this.bridge`: the server of the handle, or NoBridge
    bridgePort,        \* main.js `this.bridgePort`, or NoPort
    servers,           \* every http server startBridge has created: port and state
    tasks,             \* main.js startBridge / stopBridge calls suspended on an await
    taken,             \* the ports other processes hold
    conns,             \* the server of each exchange of `inflight`
    unhandled,         \* a server emitted 'error' and nothing listened for it
    notice,            \* the outcome of the latest start or stop that ended
    relay              \* server.js: the stdio relay process, its output and its requests

hostVars == <<active, bridge, bridgePort, servers, tasks, taken, conns, unhandled, notice, relay>>

vars == <<sessions, issued, externalToolsMap, disposables, editor, inflight, last,
          active, bridge, bridgePort, servers, tasks, taken, conns, unhandled, notice,
          relay>>

-----------------------------------------------------------------------------
(* Bounds of the model *)

MaxText == 1        \* insertions the editor buffer holds
MaxBatch == 2       \* elements of the longest POST /mcp list
MaxInFlight == 1    \* HTTP exchanges open at the same time
NumSessionIds == 2  \* ids crypto.randomUUID() can still return
MaxProviders == 1   \* consumeMcpTools registrations not yet disposed
MaxTools == 1       \* tools of the longest array given to consumeMcpTools
MaxClock == 1       \* latest value Date.now() returns
MaxListed == 2      \* tools one package provides in the runs of the tool list
MaxAttempts == 2    \* maxAttempts of findAvailablePort in the runs (100 by default)
MaxServers == 2     \* http servers startBridge creates in one run
MaxTasks == 2       \* start and stop calls of the host pending at once
MaxLines == 3       \* lines the relay reads from standard input in one run
MaxRegistrations == 2 \* consumeMcpTools registrations not yet disposed, where providers meet

-----------------------------------------------------------------------------
(* JavaScript values, as far as the tools return them.  An atom carries   *)
(* its JSON text; an object has one member k: v; an array has one element *)
(* v, or none when v = "".                                                *)

Atom(v) == [t |-> "atom", k |-> "", v |-> v]
Obj(k, v) == [t |-> "obj", k |-> k, v |-> v]
Arr(v) == [t |-> "arr", k |-> "", v |-> v]

Undefined == Atom("undefined")
Null == Atom("null")
False == Atom("false")
True == Atom("true")

BoolText(b) == IF b THEN "true" ELSE "false"

\* JSON.stringify(value, null, 2); hasText is FALSE where it returns undefined
JsonStringify(val) ==
    IF val.t = "atom"
    THEN [hasText |-> val.v # "undefined",
          text |-> IF val.v = "undefined" THEN "" ELSE val.v]
    ELSE IF val.t = "obj"
    THEN [hasText |-> TRUE,
          text |-> "{\n  \"" \o val.k \o "\": " \o val.v \o "\n}"]
    ELSE [hasText |-> TRUE,
          text |-> IF val.v = "" THEN "[]" ELSE "[\n  " \o val.v \o "\n]"]

\* A thrown value: an Error with a message, a string, or null
Thrown(cls, msg) == [cls |-> cls, msg |-> msg]

\* error instanceof Error ? error.message : String(error)
ErrorMessage(th) ==
    IF th.cls = "Error" THEN th.msg
    ELSE IF th.cls = "string" THEN th.msg
    ELSE "null"

-----------------------------------------------------------------------------
(* Tool arguments: the members the modelled tools read.  text and path    *)
(* carry typeof; range says that start and end are both given.            *)

Args(text, path, range) == [text |-> text, path |-> path, range |-> range]

TypeOf(args, argName) ==
    IF argName = "text" THEN args.text
    ELSE IF argName = "path" THEN args.path
    ELSE "undefined"

-----------------------------------------------------------------------------
(* The editor: one text editor that is open or not, the number of         *)
(* insertions its buffer holds, and its modified flag.                    *)

Editor(open, len, modified) == [open |-> open, len |-> len, modified |-> modified]

NoEditor == Editor(FALSE, 0, FALSE)

\* What a tool procedure did when control came back: it returned val, threw
\* th, or is suspended on an editor operation
Returned(val, ed) == [st |-> "return", val |-> val, th |-> Thrown("Error", ""), ed |-> ed]
Threw(th, ed) == [st |-> "throw", val |-> Undefined, th |-> th, ed |-> ed]
Suspended(ed) == [st |-> "suspend", val |-> Undefined, th |-> Thrown("Error", ""), ed |-> ed]

\* How an awaited promise settles: an editor operation resolves or rejects
\* with th; an external procedure resolves with val or rejects with th
Resolved(val) == [ok |-> TRUE, val |-> val, th |-> Thrown("Error", "")]
Rejected(th) == [ok |-> FALSE, val |-> Undefined, th |-> th]

-----------------------------------------------------------------------------
(* The built-in tools of tools.js.  Each operator runs the procedure up   *)
(* to its first await on the editor, or to its end.                       *)

\* tools.GetActiveEditor.execute
GetActiveEditor(ed) ==
    IF ~ed.open THEN Returned(Null, ed)
    ELSE Returned(Obj("modified", BoolText(ed.modified)), ed)

\* InsertText writing into the buffer before it checks its argument
InsertTextUnchecked(args, ed) ==
    IF ~ed.open THEN Returned(Obj("inserted", "false"), ed)
    ELSE IF args.text # "string"
    THEN Threw(Thrown("Error", "text is required"), Editor(TRUE, ed.len + 1, TRUE))
    ELSE IF args.range THEN Returned(Obj("inserted", "true"), Editor(TRUE, 1, TRUE))
    ELSE Returned(Obj("inserted", "true"), Editor(TRUE, ed.len + 1, TRUE))

\* tools.InsertText.execute
InsertText(args, ed) ==
    IF args.text # "string" THEN Threw(Thrown("Error", "text is required"), ed)
    ELSE IF ~ed.open THEN Returned(Obj("inserted", "false"), ed)
    ELSE IF args.range THEN Returned(Obj("inserted", "true"), Editor(TRUE, 1, TRUE))
    ELSE Returned(Obj("inserted", "true"), Editor(TRUE, ed.len + 1, TRUE))

\* tools.SetTextInRange.execute
SetTextInRange(args, ed) ==
    IF args.text # "string" THEN Threw(Thrown("Error", "text is required"), ed)
    ELSE IF ~args.range
    THEN Threw(Thrown("Error", "start and end positions are required"), ed)
    ELSE IF ~ed.open THEN Returned(Obj("replaced", "false"), ed)
    ELSE Returned(Obj("replaced", "true"), Editor(TRUE, 1, TRUE))

\* tools.OpenFile.execute, up to `await atom.workspace.open(path, options)`
OpenFile(args, ed) ==
    IF args.path # "string" THEN Threw(Thrown("Error", "path is required"), ed)
    ELSE Suspended(ed)

\* tools.SaveFile.execute, up to `await editor.save()`
SaveFile(args, ed) ==
    IF ~ed.open THEN Returned(Obj("saved", "false"), ed)
    ELSE Suspended(ed)

\* atom.workspace.open has settled: the file is the active editor
Opened(ed) == IF ed.open THEN ed ELSE Editor(TRUE, 0, FALSE)

\* editor.save() has settled: the buffer is on disk
Saved(ed) == IF ed.open THEN Editor(TRUE, ed.len, FALSE) ELSE ed

\* tools.OpenFile.execute after its await
OpenFileResume(ed, outcome) ==
    IF outcome.ok THEN Returned(Obj("opened", "true"), Opened(ed))
    ELSE Threw(outcome.th, ed)

\* tools.SaveFile.execute after its await
SaveFileResume(ed, outcome) ==
    IF outcome.ok THEN Returned(Obj("saved", "true"), Saved(ed))
    ELSE Threw(outcome.th, ed)

ToolNames == {"GetActiveEditor", "InsertText", "SetTextInRange", "OpenFile", "SaveFile"}

\* tools[toolName].execute(args)
ToolExecute(name, args, ed) ==
    CASE name = "GetActiveEditor" -> GetActiveEditor(ed)
      [] name = "InsertText" -> InsertText(args, ed)
      [] name = "SetTextInRange" -> SetTextInRange(args, ed)
      [] name = "OpenFile" -> OpenFile(args, ed)
      [] OTHER -> SaveFile(args, ed)

ToolResume(name, ed, outcome) ==
    IF name = "OpenFile" THEN OpenFileResume(ed, outcome)
    ELSE SaveFileResume(ed, outcome)

-----------------------------------------------------------------------------
(* The built-in tools of the registry generation: toolImpls and           *)
(* toolRegistry of lib/bridge.js.                                         *)

\* toolImpls.getActiveEditor
ImplGetActiveEditor(ed) ==
    IF ~ed.open THEN Returned(Null, ed)
    ELSE Returned(Obj("modified", BoolText(ed.modified)), ed)

\* toolImpls.insertText
ImplInsertText(args, ed) ==
    IF ~ed.open THEN Returned(False, ed)
    ELSE Returned(True, Editor(TRUE, ed.len + 1, TRUE))

\* toolImpls.openFile, up to its await
ImplOpenFile(args, ed) == Suspended(ed)

\* toolImpls.saveFile, up to its await
ImplSaveFile(args, ed) ==
    IF ~ed.open THEN Returned(False, ed)
    ELSE Suspended(ed)

\* toolImpls.openFile after its await
ImplOpenFileResume(ed, outcome) ==
    IF outcome.ok THEN Returned(True, Opened(ed))
    ELSE Threw(outcome.th, ed)

\* toolImpls.saveFile after its await
ImplSaveFileResume(ed, outcome) ==
    IF outcome.ok THEN Returned(True, Saved(ed))
    ELSE Threw(outcome.th, ed)

RegistryNames == {"GetActiveEditor", "InsertText", "OpenFile", "SaveFile"}

\* toolRegistry[toolName].execute(args)
RegistryExecute(name, args, ed) ==
    CASE name = "GetActiveEditor" -> ImplGetActiveEditor(ed)
      [] name = "InsertText" -> ImplInsertText(args, ed)
      [] name = "OpenFile" -> ImplOpenFile(args, ed)
      [] OTHER -> ImplSaveFile(args, ed)

RegistryResume(name, ed, outcome) ==
    IF name = "OpenFile" THEN ImplOpenFileResume(ed, outcome)
    ELSE ImplSaveFileResume(ed, outcome)

\* toolRegistry[toolName].validate: the arguments that carry
\* validators.string, in declaration order
RegistryValidate(name) ==
    CASE name = "InsertText" -> <<"text">>
      [] name = "OpenFile" -> <<"path">>
      [] OTHER -> <<>>

\* toolRegistry[toolName].format
RegistryFormat(name, result) ==
    CASE name = "InsertText" -> Obj("inserted", result.v)
      [] name = "OpenFile" -> Obj("opened", result.v)
      [] name = "SaveFile" -> Obj("saved", result.v)
      [] OTHER -> result

\* validators.string: null, modelled as "", or the message
ValidatorString(type, argName) ==
    IF type = "string" THEN "" ELSE argName \o " is required"

-----------------------------------------------------------------------------
(* The result envelope {success, data, error}.  hasData and hasError say  *)
(* which members the object carries.                                      *)

Envelope(success, hasData, data, hasError, error) ==
    [success |-> success, hasData |-> hasData, data |-> data,
     hasError |-> hasError, error |-> error]

\* { success: true, data }
Success(data) == Envelope(TRUE, TRUE, data, FALSE, "")

\* { success: false, data: undefined, error }: a failure that keeps a data member
FailureWithData(message) == Envelope(FALSE, TRUE, Undefined, TRUE, message)

\* { success: false, error }
Failure(message) == Envelope(FALSE, FALSE, Undefined, TRUE, message)

\* The unknown-tool failure without the name of the tool
UnknownToolUnnamed(name) == Failure("Unknown tool")

\* { success: false, error: `Unknown tool: ${toolName}` }
UnknownTool(name) == Failure("Unknown tool: " \o name)

\* result !== false && result !== null
IsSuccess(result) == ~(result.t = "atom" /\ result.v \in {"false", "null"})

\* The external tool registered under name, if any
HasExternal(ext, name) == \E i \in 1..Len(ext) : ext[i].name = name

(* A call of executeTool: the bridge generation that serves it, where it  *)
(* stands (awaiting the built-in procedure, awaiting the external one,    *)
(* returned its envelope, or thrown), the envelope, the procedures it has *)
(* invoked so far, and how the one invoked last ended.                    *)
Call(gen, name, args, pc, env, invoked, ran) ==
    [gen |-> gen, name |-> name, args |-> args, pc |-> pc, env |-> env,
     invoked |-> invoked, ran |-> ran]

\* How a procedure ended: "return" with val, "throw", or "none" yet
Ran(st, val) == [st |-> st, val |-> val]

Generations == {"registry", "tools"}

\* The first rule of toolRegistry[name].validate that args fail, or 0
FirstInvalid(name, args) ==
    LET rules == RegistryValidate(name)
        bad == {i \in 1..Len(rules) :
                   ValidatorString(TypeOf(args, rules[i]), rules[i]) # ""}
    IN  IF bad = {} THEN 0 ELSE CHOOSE i \in bad : \A j \in bad : i <= j

\* executeFromRegistry's try block once the procedure has settled
RegistryEnvelope(name, run) ==
    IF run.st = "throw" THEN Failure(ErrorMessage(run.th))
    ELSE Envelope(IsSuccess(run.val), TRUE, RegistryFormat(name, run.val), FALSE, "")

\* executeTool of tools.js: its try block once the procedure has settled
ToolsEnvelope(run) ==
    IF run.st = "throw" THEN Failure(ErrorMessage(run.th))
    ELSE Success(run.val)

\* executeTool of the bridge, external branch, once tool.execute(args) has
\* settled: error.message || String(error); a thrown null makes the catch
\* block itself throw a TypeError
ExternalSettled(call, outcome) ==
    IF outcome.ok
    THEN [call EXCEPT !.pc = "done", !.env = Success(outcome.val),
                      !.ran = Ran("return", outcome.val)]
    ELSE IF outcome.th.cls = "null"
    THEN [call EXCEPT !.pc = "thrown", !.ran = Ran("throw", Undefined),
              !.env = Failure("Cannot read properties of null (reading 'message')")]
    ELSE IF outcome.th.cls = "Error" /\ outcome.th.msg = ""
    THEN [call EXCEPT !.pc = "done", !.env = Failure("Error"),
                      !.ran = Ran("throw", Undefined)]
    ELSE [call EXCEPT !.pc = "done", !.env = Failure(outcome.th.msg),
                      !.ran = Ran("throw", Undefined)]

\* executeTool of the bridge (tools.js generation) after
\* `result = await executeBuiltinTool(toolName, args)`
AfterBuiltin(call, env, ext) ==
    IF ~env.success /\ env.hasError /\ env.error = "Unknown tool: " \o call.name
       /\ HasExternal(ext, call.name)
    THEN [call EXCEPT !.pc = "external", !.env = env,
              !.invoked = Append(call.invoked, "external")]
    ELSE [call EXCEPT !.pc = "done", !.env = env]

\* executeFromRegistry, from its entry to the first await that suspends
ExecuteFromRegistry(call, ed) ==
    IF call.name \notin RegistryNames
    THEN [call |-> [call EXCEPT !.pc = "done", !.env = UnknownTool(call.name)],
          ed |-> ed]
    ELSE IF FirstInvalid(call.name, call.args) # 0
    THEN LET argName == RegistryValidate(call.name)[FirstInvalid(call.name, call.args)]
         IN  [call |-> [call EXCEPT !.pc = "done",
                  !.env = Failure(ValidatorString(TypeOf(call.args, argName), argName))],
              ed |-> ed]
    ELSE LET run == RegistryExecute(call.name, call.args, ed)
             c == [call EXCEPT !.invoked = Append(call.invoked, "builtin"),
                               !.ran = Ran(run.st, run.val)]
         IN  IF run.st = "suspend"
             THEN [call |-> [c EXCEPT !.pc = "builtin"], ed |-> run.ed]
             ELSE [call |-> [c EXCEPT !.pc = "done",
                                 !.env = RegistryEnvelope(call.name, run)],
                   ed |-> run.ed]

\* executeTool of lib/bridge.js: the built-in registry first, then the
\* external map, then "Unknown tool"
ExecuteToolRegistry(call, ed, ext) ==
    IF call.name \in RegistryNames THEN ExecuteFromRegistry(call, ed)
    ELSE IF HasExternal(ext, call.name)
    THEN [call |-> [call EXCEPT !.pc = "external",
                       !.invoked = Append(call.invoked, "external")],
          ed |-> ed]
    ELSE [call |-> [call EXCEPT !.pc = "done", !.env = UnknownTool(call.name)],
          ed |-> ed]

\* executeTool of tools.js followed by the external fallback of the bridge
ExecuteToolTools(call, ed, ext) ==
    IF call.name \notin ToolNames
    THEN [call |-> AfterBuiltin(call, UnknownTool(call.name), ext), ed |-> ed]
    ELSE LET run == ToolExecute(call.name, call.args, ed)
             c == [call EXCEPT !.invoked = Append(call.invoked, "builtin"),
                               !.ran = Ran(run.st, run.val)]
         IN  IF run.st = "suspend"
             THEN [call |-> [c EXCEPT !.pc = "builtin"], ed |-> run.ed]
             ELSE [call |-> AfterBuiltin(c, ToolsEnvelope(run), ext), ed |-> run.ed]

\* executeTool(toolName, args), from its entry to the first await that
\* suspends
ExecuteTool(gen, name, args, ed, ext) ==
    LET call == Call(gen, name, args, "start", Failure(""), <<>>, Ran("none", Undefined))
    IN  IF gen = "registry" THEN ExecuteToolRegistry(call, ed, ext)
        ELSE ExecuteToolTools(call, ed, ext)

\* executeTool resumed when the promise it awaits settles
ExecuteToolResume(call, outcome, ed, ext) ==
    IF call.pc = "external"
    THEN [call |-> ExternalSettled(call, outcome), ed |-> ed]
    ELSE IF call.gen = "registry"
    THEN LET run == RegistryResume(call.name, ed, outcome)
         IN  [call |-> [call EXCEPT !.pc = "done", !.ran = Ran(run.st, run.val),
                           !.env = RegistryEnvelope(call.name, run)],
              ed |-> run.ed]
    ELSE LET run == ToolResume(call.name, ed, outcome)
         IN  [call |-> AfterBuiltin([call EXCEPT !.ran = Ran(run.st, run.val)],
                                    ToolsEnvelope(run), ext),
              ed |-> run.ed]

-----------------------------------------------------------------------------
(* JSON-RPC requests and responses.  id = NoId, name = "" and             *)
(* protocolVersion = "" stand for an absent member.                       *)

NoId == 0
NoSession == 0

\* id: null, as jsonRpcError(null, ...) writes it
NullId == -1

PROTOCOL_VERSION == "2025-11-25"

Request(jsonrpc, id, method, name, args, protocolVersion, clientInfo) ==
    [jsonrpc |-> jsonrpc, id |-> id, method |-> method, name |-> name,
     args |-> args, protocolVersion |-> protocolVersion,
     clientInfo |-> clientInfo]

NoArgs == Args("undefined", "undefined", FALSE)

\* The result member of a response: {} for ping, the initialize result,
\* {tools}, or {content: [{type: "text", text}], isError}
Result(rtype, hasText, text, isError, tools) ==
    [rtype |-> rtype, hasText |-> hasText, text |-> text, isError |-> isError,
     tools |-> tools]

NoResult == Result("none", FALSE, "", FALSE, <<>>)

\* jsonRpcResponse(id, result)
JsonRpcResponse(id, result) ==
    [id |-> id, kind |-> "result", code |-> 0, message |-> "", result |-> result]

\* Every error reported as an internal error
JsonRpcErrorInternal(id, code, message) ==
    [id |-> id, kind |-> "error", code |-> -32603, message |-> message,
     result |-> NoResult]

\* Every error reported without the id of its request
JsonRpcErrorAnonymous(id, code, message) ==
    [id |-> NullId, kind |-> "error", code |-> code, message |-> message,
     result |-> NoResult]

\* Every error reported as an invalid request
JsonRpcErrorInvalidRequest(id, code, message) ==
    [id |-> id, kind |-> "error", code |-> -32600, message |-> message,
     result |-> NoResult]

\* Every error reported as a result
JsonRpcErrorAsResult(id, code, message) ==
    [id |-> id, kind |-> "result", code |-> code, message |-> message,
     result |-> NoResult]

\* jsonRpcError(id, code, message)
JsonRpcError(id, code, message) ==
    [id |-> id, kind |-> "error", code |-> code, message |-> message,
     result |-> NoResult]

\* What handleMcpRequest returns: {response, sessionId, statusCode};
\* hasResponse is FALSE for response: null
Handled(hasResponse, response, sessionId, statusCode) ==
    [hasResponse |-> hasResponse, response |-> response,
     sessionId |-> sessionId, statusCode |-> statusCode]

NoCall == Call("tools", "", NoArgs, "none", Failure(""), <<>>, Ran("none", Undefined))

\* One element of a POST body while its handler runs: suspended on a tool
\* ("pending"), returned ("done"), or thrown ("thrown")
Element(st, res, call) == [st |-> st, res |-> res, call |-> call]

\* The metadata tools/list gives for one tool
ToolMeta(name, description, inputSchema, annotations) ==
    [name |-> name, description |-> description, inputSchema |-> inputSchema,
     annotations |-> annotations]

\* Object.values(tools), in declaration order
ToolsInOrder ==
    <<"GetActiveEditor", "InsertText", "OpenFile", "SaveFile", "SetTextInRange">>

\* getToolsList() of tools.js; lib/bridge.js maps name, description and
\* inputSchema only
GetToolsList(gen) ==
    [i \in 1..Len(ToolsInOrder) |->
        ToolMeta(ToolsInOrder[i], "doc", "schema",
                 IF gen = "tools" THEN "hints" ELSE "undefined")]

\* The entry tools/list gives for an external tool
ExternalMeta(gen, tool) ==
    ToolMeta(tool.name, tool.description,
             IF tool.inputSchema = "" THEN "{}" ELSE tool.inputSchema,
             IF gen = "tools" THEN tool.annotations ELSE "undefined")

\* handleToolsList with the external tools ahead of the built-in ones
HandleToolsListExternalFirst(gen, id, ext) ==
    JsonRpcResponse(id,
        Result("tools", FALSE, "", FALSE,
               [i \in 1..Len(ext) |-> ExternalMeta(gen, ext[i])] \o GetToolsList(gen)))

\* handleToolsList(id)
HandleToolsList(gen, id, ext) ==
    JsonRpcResponse(id,
        Result("tools", FALSE, "", FALSE,
               GetToolsList(gen) \o [i \in 1..Len(ext) |-> ExternalMeta(gen, ext[i])]))

\* handleToolsCall(id, params) once executeTool has returned its envelope
ToolsCallResponse(id, env) ==
    IF env.success
    THEN JsonRpcResponse(id,
             Result("content", JsonStringify(env.data).hasText,
                    JsonStringify(env.data).text, FALSE, <<>>))
    ELSE JsonRpcResponse(id,
             Result("content", TRUE,
                    IF env.hasError /\ env.error # "" THEN env.error
                    ELSE "Tool execution failed",
                    TRUE, <<>>))

\* The element of a tools/call whose executeTool stands at call
ToolsCallElement(id, call) ==
    IF call.pc = "done"
    THEN Element("done", Handled(TRUE, ToolsCallResponse(id, call.env), NoSession, 0), call)
    ELSE IF call.pc = "thrown"
    THEN Element("thrown", Handled(FALSE, JsonRpcError(id, 0, call.env.error), NoSession, 0), call)
    ELSE Element("pending", Handled(FALSE, JsonRpcError(id, 0, ""), NoSession, 0), call)

\* The session handleInitialize stores
Session(params, now) ==
    [initialized |-> TRUE,
     protocolVersion |-> IF params.protocolVersion = "" THEN PROTOCOL_VERSION
                         ELSE params.protocolVersion,
     clientInfo |-> params.clientInfo,
     createdAt |-> now]

\* sessions.set(sessionId, session)
SessionsSet(map, sessionId, session) ==
    [k \in DOMAIN map \cup {sessionId} |->
        IF k = sessionId THEN session ELSE map[k]]

\* sessions.clear() in the place of sessions.delete(sessionId)
SessionsClear(map, sessionId) ==
    [k \in {} |-> map[k]]

\* sessions.delete(sessionId)
SessionsDelete(map, sessionId) ==
    [k \in DOMAIN map \ {sessionId} |-> map[k]]

\* The initialize result
InitializeResult == Result("initialize", FALSE, PROTOCOL_VERSION, FALSE, <<>>)

(* handleMcpRequest(body, sessionId), from its entry to the first await   *)
(* that suspends.  st carries what the handler reads and writes: the      *)
(* session map, the editor, the ids randomUUID returns next, the clock.   *)
HandleMcpRequest(req, gen, ext, st) ==
    IF req.jsonrpc # "2.0"
    THEN [el |-> Element("done",
                    Handled(TRUE, JsonRpcError(req.id, -32600,
                        "Invalid Request: must be JSON-RPC 2.0"), NoSession, 0),
                    NoCall),
          st |-> st]
    ELSE CASE req.method = "initialize" ->
              LET sessionId == Head(st.ids)
              IN  [el |-> Element("done",
                          Handled(TRUE, JsonRpcResponse(req.id, InitializeResult),
                                  sessionId, 0),
                          NoCall),
                   st |-> [st EXCEPT
                             !.sessions = SessionsSet(st.sessions, sessionId,
                                                      Session(req, st.now)),
                             !.ids = Tail(st.ids)]]
           [] req.method = "notifications/initialized" ->
              [el |-> Element("done",
                          Handled(FALSE, JsonRpcError(req.id, 0, ""), NoSession, 202),
                          NoCall),
               st |-> st]
           [] req.method = "tools/list" ->
              [el |-> Element("done",
                          Handled(TRUE, HandleToolsList(gen, req.id, ext), NoSession, 0),
                          NoCall),
               st |-> st]
           [] req.method = "tools/call" ->
              IF req.name = ""
              THEN [el |-> Element("done",
                              Handled(TRUE, JsonRpcError(req.id, -32602,
                                  "Invalid params: missing tool name"), NoSession, 0),
                              NoCall),
                    st |-> st]
              ELSE LET x == ExecuteTool(gen, req.name, req.args, st.editor, ext)
                   IN  [el |-> ToolsCallElement(req.id, x.call),
                        st |-> [st EXCEPT !.editor = x.ed]]
           [] req.method = "ping" ->
              [el |-> Element("done",
                          Handled(TRUE, JsonRpcResponse(req.id, Result("empty", FALSE, "", FALSE, <<>>)),
                                  NoSession, 0),
                          NoCall),
               st |-> st]
           [] OTHER ->
              [el |-> Element("done",
                          Handled(TRUE, JsonRpcError(req.id, -32601,
                              "Method not found: " \o req.method), NoSession, 0),
                          NoCall),
               st |-> st]

\* body.map((request) => handleMcpRequest(request, sessionId)): the
\* synchronous part of every element, in input order
RECURSIVE MapRequests(_, _, _, _)
MapRequests(reqs, gen, ext, st) ==
    IF reqs = <<>> THEN [els |-> <<>>, st |-> st]
    ELSE LET h == HandleMcpRequest(Head(reqs), gen, ext, st)
             rest == MapRequests(Tail(reqs), gen, ext, h.st)
         IN  [els |-> <<h.el>> \o rest.els, st |-> rest.st]

-----------------------------------------------------------------------------
(* The HTTP transport.  An exchange is one HTTP request whose handler has *)
(* started: its route, the bridge generation serving it, the elements of  *)
(* its body, the order in which they completed, and whether the response  *)
(* has been written.                                                      *)

Exchange(route, gen, sid, reqs, els, order, answered) ==
    [route |-> route, gen |-> gen, sid |-> sid, reqs |-> reqs, els |-> els,
     order |-> order, answered |-> answered]

\* The indices of the elements that are not suspended, in input order
SettledIndices(els) ==
    LET F[i \in 0..Len(els)] ==
            IF i = 0 THEN <<>>
            ELSE IF els[i].st = "pending" THEN F[i - 1]
            ELSE Append(F[i - 1], i)
    IN  F[Len(els)]

\* The responses collected as the elements complete, not from the array
\* Promise.all resolves with
BatchResponsesAsCompleted(ex) ==
    LET kept == SelectSeq(ex.order, LAMBDA i : ex.els[i].res.hasResponse)
    IN  [i \in 1..Len(kept) |-> ex.els[kept[i]].res.response]

\* results.filter((r) => r.response !== null).map((r) => r.response) on
\* the array Promise.all resolves with: the results in input order
BatchResponses(ex) ==
    LET kept == SelectSeq(ex.els, LAMBDA el : el.res.hasResponse)
    IN  [i \in 1..Len(kept) |-> kept[i].res.response]

\* What the transport writes: status, JSON-RPC responses of the body,
\* Mcp-Session-Id header, and the message of a 500
Reply(status, body, header, message) ==
    [status |-> status, body |-> body, header |-> header, message |-> message]

\* The catch block of the request handler: sendJson(res, {error}, 500)
ReplyThrown(ex) ==
    LET i == CHOOSE i \in 1..Len(ex.els) : ex.els[i].st = "thrown"
    IN  Reply(500, <<>>, NoSession, ex.els[i].call.env.error)

\* POST /tools/:toolName answering 200 whatever the envelope
ReplyRestAlwaysOk(ex) == Reply(200, <<>>, NoSession, "")

\* POST /tools/:toolName once executeTool has returned
ReplyRest(ex) ==
    Reply(IF ex.els[1].call.env.success THEN 200 ELSE 400, <<>>, NoSession, "")

\* handleMcpEndpoint, single request, once handleMcpRequest has returned
ReplySingle(ex) ==
    IF ~ex.els[1].res.hasResponse THEN Reply(202, <<>>, NoSession, "")
    ELSE Reply(200, <<ex.els[1].res.response>>, ex.els[1].res.sessionId, "")

\* handleMcpEndpoint, batch, once Promise.all has resolved
ReplyBatch(ex) ==
    IF Len(BatchResponses(ex)) = 0 THEN Reply(202, <<>>, NoSession, "")
    ELSE Reply(200, BatchResponses(ex), NoSession, "")

\* The handler can write its response: an element has thrown, or all are done
CanReply(ex) ==
    \/ \E i \in 1..Len(ex.els) : ex.els[i].st = "thrown"
    \/ \A i \in 1..Len(ex.els) : ex.els[i].st = "done"

ReplyOf(ex) ==
    IF \E i \in 1..Len(ex.els) : ex.els[i].st = "thrown" THEN ReplyThrown(ex)
    ELSE IF ex.route = "rest" THEN ReplyRest(ex)
    ELSE IF ex.route = "single" \/ ex.gen = "registry" THEN ReplySingle(ex)
    ELSE ReplyBatch(ex)

\* The answered exchange, as `last` keeps it
Answered(ex) ==
    [route |-> ex.route, gen |-> ex.gen, sid |-> ex.sid, reqs |-> ex.reqs,
     calls |-> [i \in 1..Len(ex.els) |-> ex.els[i].call],
     results |-> [i \in 1..Len(ex.els) |-> ex.els[i].res],
     completed |-> ex.order,
     reply |-> ReplyOf(ex)]

NoExchange ==
    [route |-> "none", gen |-> "tools", sid |-> NoSession, reqs |-> <<>>,
     calls |-> <<>>, results |-> <<>>, completed |-> <<>>,
     reply |-> Reply(0, <<>>, NoSession, "")]

\* No element of the exchange is still suspended: none waits for a promise
\* that will settle ("pending") or for one that never will ("hung")
AllSettled(ex) == \A i \in 1..Len(ex.els) : ex.els[i].st \notin {"pending", "hung"}

\* A handler that keeps the listener busy while its call hangs
WaitingOrHung(fl) == 1..Len(fl)

\* The exchanges whose handler waits for a promise that will settle; an
\* exchange whose call hangs holds its connection and nothing else
Waiting(fl) == {k \in 1..Len(fl) : \E i \in 1..Len(fl[k].els) : fl[k].els[i].st = "pending"}

-----------------------------------------------------------------------------
(* External tools: what other packages give to consumeMcpTools.  A tool   *)
(* carries its metadata ("" or "undefined" for an absent member) and      *)
(* whether it has an execute procedure.                                   *)

ExternalTool(name, description, inputSchema, annotations, hasExecute) ==
    [name |-> name, description |-> description, inputSchema |-> inputSchema,
     annotations |-> annotations, hasExecute |-> hasExecute]

ExternalPool ==
    { ExternalTool("Ext", "", "", "undefined", TRUE),
      ExternalTool("SaveFile", "save", "schema", "hints", TRUE),
      ExternalTool("Broken", "", "", "undefined", FALSE) }

\* Arrays of at most n elements of S, the empty one included
RECURSIVE ArraysUpTo(_, _)
ArraysUpTo(S, n) ==
    IF n = 0 THEN {<<>>}
    ELSE LET shorter == ArraysUpTo(S, n - 1)
         IN  shorter \cup {Append(a, x) : a \in {b \in shorter : Len(b) = n - 1}, x \in S}

\* externalTools.set(tool.name, tool): a Map keeps the place of a key it has
MapSet(map, tool) ==
    IF \E i \in 1..Len(map) : map[i].name = tool.name
    THEN [i \in 1..Len(map) |-> IF map[i].name = tool.name THEN tool ELSE map[i]]
    ELSE Append(map, tool)

\* externalTools.delete(name)
MapDelete(map, name) == SelectSeq(map, LAMBDA tool : tool.name # name)

\* A consumeMcpTools that registers nothing of an array that holds a
\* definition without name or execute
RegisterAllOrNone(map, tools) ==
    IF \E k \in 1..Len(tools) : tools[k].name = "" \/ ~tools[k].hasExecute THEN map
    ELSE LET F[k \in 0..Len(tools)] ==
                 IF k = 0 THEN map
                 ELSE IF \E i \in 1..Len(F[k - 1]) : F[k - 1][i].name = tools[k].name
                 THEN F[k - 1] ELSE Append(F[k - 1], tools[k])
         IN  F[Len(tools)]

\* The loop of consumeMcpTools: a tool without name or execute is skipped
RECURSIVE RegisterAll(_, _)
RegisterAll(map, tools) ==
    IF tools = <<>> THEN map
    ELSE IF Head(tools).name = "" \/ ~Head(tools).hasExecute
    THEN RegisterAll(map, Tail(tools))
    ELSE RegisterAll(MapSet(map, Head(tools)), Tail(tools))

\* registeredNames of consumeMcpTools
RegisteredNames(tools) ==
    LET valid == SelectSeq(tools, LAMBDA tool : tool.name # "" /\ tool.hasExecute)
    IN  [i \in 1..Len(valid) |-> valid[i].name]

\* A Disposable whose callback deletes nothing
UnregisterNone(map, names) == map

\* The callback of the Disposable consumeMcpTools returns
RECURSIVE UnregisterAll(_, _)
UnregisterAll(map, names) ==
    IF names = <<>> THEN map
    ELSE UnregisterAll(MapDelete(map, Head(names)), Tail(names))

\* seq without its i-th element
RemoveAt(seq, i) == [j \in 1..(Len(seq) - 1) |-> IF j < i THEN seq[j] ELSE seq[j + 1]]

-----------------------------------------------------------------------------
(* Inputs *)

SessionIds == 1..NumSessionIds

Times == 1..MaxClock

\* What an awaited editor operation can reject with
EditorErrors ==
    { Thrown("Error", "EACCES"), Thrown("Error", "Unknown tool: SaveFile") }

\* What an external procedure can return
ExternalReturns ==
    { Undefined, Null, False, Atom("0"), Atom("\"\""), Arr(""), Obj("ok", "true") }

\* What an external procedure can throw
ExternalThrows ==
    { Thrown("Error", "boom"), Thrown("Error", ""), Thrown("string", "oops"),
      Thrown("null", "") }

\* How the promise a call awaits can settle
Outcomes(call) ==
    IF call.pc = "external"
    THEN {Resolved(v) : v \in ExternalReturns} \cup {Rejected(th) : th \in ExternalThrows}
    ELSE {Resolved(Undefined)} \cup {Rejected(th) : th \in EditorErrors}

ToolsCall(id, name, args) == Request("2.0", id, "tools/call", name, args, "", "undefined")

\* The tools/call requests of the model: every tool with arguments that
\* pass and that fail its checks, an external tool, an unknown tool
CallPool ==
    { ToolsCall(1, "GetActiveEditor", NoArgs),
      ToolsCall(1, "InsertText", NoArgs),
      ToolsCall(1, "InsertText", Args("string", "undefined", FALSE)),
      ToolsCall(1, "InsertText", Args("number", "undefined", FALSE)),
      ToolsCall(1, "InsertText", Args("string", "undefined", TRUE)),
      ToolsCall(1, "SetTextInRange", NoArgs),
      ToolsCall(1, "SetTextInRange", Args("string", "undefined", FALSE)),
      ToolsCall(1, "SetTextInRange", Args("string", "undefined", TRUE)),
      ToolsCall(1, "OpenFile", NoArgs),
      ToolsCall(1, "OpenFile", Args("undefined", "string", FALSE)),
      ToolsCall(1, "SaveFile", NoArgs),
      ToolsCall(1, "Ext", NoArgs),
      ToolsCall(1, "Nope", NoArgs) }

\* The requests of the protocol, tools/call aside
ProtocolPool ==
    { Request("2.0", 1, "ping", "", NoArgs, "", "undefined"),
      Request("2.0", NoId, "notifications/initialized", "", NoArgs, "", "undefined"),
      Request("2.0", 2, "initialize", "", NoArgs, "", "undefined"),
      Request("2.0", 2, "initialize", "", NoArgs, "2024-11-05", "cli"),
      Request("2.0", 3, "tools/list", "", NoArgs, "", "undefined"),
      Request("2.0", 3, "tools/call", "", NoArgs, "", "undefined"),
      Request("2.0", 1, "foo", "", NoArgs, "", "undefined"),
      Request("1.0", 2, "initialize", "", NoArgs, "", "undefined") }

\* The elements of the batches of the model
BatchPool ==
    { r \in ProtocolPool : r.method \in {"ping", "notifications/initialized", "initialize"}
                            /\ r.protocolVersion = "" }
    \cup { ToolsCall(4, "OpenFile", Args("undefined", "string", FALSE)),
           ToolsCall(5, "Ext", NoArgs) }

\* How the promise a call awaits settles in the runs of the protocol
OutcomesMcp(call) ==
    IF call.pc = "external"
    THEN {Resolved(Obj("ok", "true")), Rejected(Thrown("Error", "boom")),
          Rejected(Thrown("null", ""))}
    ELSE {Resolved(Undefined), Rejected(Thrown("Error", "EACCES"))}

\* The requests of the runs of the tool list: listing, calling a built-in,
\* an external and an unknown tool, ping, initialize
ListPool ==
    { Request("2.0", 1, "ping", "", NoArgs, "", "undefined"),
      Request("2.0", 2, "initialize", "", NoArgs, "", "undefined"),
      Request("2.0", 3, "tools/list", "", NoArgs, "", "undefined"),
      ToolsCall(4, "GetActiveEditor", NoArgs),
      ToolsCall(5, "Ext", NoArgs),
      ToolsCall(6, "Nope", NoArgs) }

\* The requests of reqs that reach handleInitialize
Initializes(reqs) ==
    Len(SelectSeq(reqs, LAMBDA r : r.jsonrpc = "2.0" /\ r.method = "initialize"))

\* Session ids drawn without regard to the ids already given out
ReusedIds(n) == [1..n -> SessionIds]

\* The ids crypto.randomUUID() returns to n calls: never one it has returned
FreshIds(n) ==
    { ids \in [1..n -> SessionIds \ issued] :
        \A i, j \in 1..n : i # j => ids[i] # ids[j] }

-----------------------------------------------------------------------------
(* The host package (main.js) and the listeners of the bridge.            *)

DEFAULT_PORT == 3000

NoBridge == 0
NoPort == 0

\* The ports other processes bind in the runs: those findAvailablePort may probe
Ports == DEFAULT_PORT..(DEFAULT_PORT + MaxAttempts - 1)

\* An http server of startBridge: "binding" from server.listen(port, host)
\* until the bind is decided, then "listening" or "failed"; "closing" from
\* server.close() until its connections have ended, then "closed"
Server(port, st) == [port |-> port, st |-> st]

\* A call of the host suspended on an await: startBridge inside
\* findAvailablePort, with the ports found in use so far, or stopBridge
\* inside bridge.stop(), with the server and whether close() found it
\* not running
Task(op, startPort, probed, server, err) ==
    [op |-> op, startPort |-> startPort, probed |-> probed, server |-> server, err |-> err]

\* The error of findAvailablePort: "Could not find available port after
\* ${maxAttempts} attempts starting from ${startPort}"
PortError(startPort, maxAttempts) ==
    [name |-> "Error", startPort |-> startPort, attempts |-> maxAttempts]

NoError == [name |-> "none", startPort |-> NoPort, attempts |-> 0]

\* The latest notification of the host, and the error its latest step caught
Notice(kind, error) == [kind |-> kind, error |-> error]

NoNotice == Notice("none", NoError)

\* `port` of findAvailablePort in iteration i: startPort, then port++
ProbedPort(startPort, probed) == startPort + Len(probed)

\* A loop that goes round once more than maxAttempts allows
AttemptsExhaustedLate(probed, maxAttempts) == Len(probed) > maxAttempts

\* The for loop of findAvailablePort has run out: i < maxAttempts is false
AttemptsExhausted(probed, maxAttempts) == Len(probed) >= maxAttempts

\* The bind of isPortAvailable or of server.listen succeeds: no other
\* process and no listener of this process holds the port
CanBind(port, held, srvs) ==
    /\ port \notin held
    /\ \A s \in 1..Len(srvs) : srvs[s].st = "listening" => srvs[s].port # port

\* A close that waits for no connection
OpenOnNothing(s) == {}

\* The exchanges in flight on server s
OpenOn(s) == {k \in 1..Len(conns) : conns[k] = s}

-----------------------------------------------------------------------------
(* Actions *)

\* The stdio relay once its module has run: console.error has written the
\* startup text to standard error, nothing is on standard output
RelayStarted ==
    [crashed |-> FALSE, read |-> 0, stdout |-> << >>, stderr |-> 1,
     pending |-> << >>, fetches |-> 0]

\* The bridge module as loaded: no session, no external tool
InitBridge ==
    /\ sessions = << >>
    /\ issued = {}
    /\ externalToolsMap = << >>
    /\ disposables = << >>
    /\ editor = NoEditor
    /\ inflight = << >>
    /\ last = NoExchange

\* A bridge that the host has started on the default port
Init ==
    /\ InitBridge
    /\ active = TRUE
    /\ bridge = 1
    /\ bridgePort = DEFAULT_PORT
    /\ servers = <<Server(DEFAULT_PORT, "listening")>>
    /\ tasks = << >>
    /\ taken = {}
    /\ conns = << >>
    /\ unhandled = FALSE
    /\ notice = NoNotice
    /\ relay = RelayStarted

\* The request of this step came in on server s
Connection(s) ==
    /\ conns' = IF Len(inflight') > Len(inflight) THEN Append(conns, s) ELSE conns
    /\ UNCHANGED <<active, bridge, bridgePort, servers, tasks, taken, unhandled, notice, relay>>

\* Exchange k went on in this step; its connection ends with its response
Completion(k) ==
    /\ conns' = IF Len(inflight') < Len(inflight) THEN RemoveAt(conns, k) ELSE conns
    /\ UNCHANGED <<active, bridge, bridgePort, servers, tasks, taken, unhandled, notice, relay>>

\* consumeMcpTools(tools) of main.js, with setExternalTools(externalTools).
\* A value that is not an array is turned away before the loop, and its
\* Disposable, like that of a call that registered nothing, has nothing to
\* delete
ConsumeMcpTools(isArray, tools) ==
    /\ externalToolsMap' = IF isArray THEN RegisterAll(externalToolsMap, tools)
                           ELSE externalToolsMap
    /\ disposables' = IF ~isArray \/ RegisteredNames(tools) = <<>> THEN disposables
                      ELSE Append(disposables, RegisteredNames(tools))
    /\ last' = NoExchange
    /\ UNCHANGED <<sessions, issued, editor, inflight>>

\* The Disposable of a registration is disposed
Dispose(d) ==
    /\ d \in 1..Len(disposables)
    /\ externalToolsMap' = UnregisterAll(externalToolsMap, disposables[d])
    /\ disposables' = RemoveAt(disposables, d)
    /\ last' = NoExchange
    /\ UNCHANGED <<sessions, issued, editor, inflight>>

\* The handler of an HTTP request has run up to its first suspension: it
\* has answered, or the exchange stays in flight
Started(ex, st) ==
    /\ st.editor.len <= MaxText
    /\ Cardinality(Waiting(inflight)) < MaxInFlight
    /\ sessions' = st.sessions
    /\ editor' = st.editor
    /\ last' = IF CanReply(ex) THEN Answered(ex) ELSE NoExchange
    /\ inflight' = IF AllSettled(ex) THEN inflight
                   ELSE Append(inflight, [ex EXCEPT !.answered = CanReply(ex)])
    /\ UNCHANGED <<externalToolsMap, disposables>>

\* POST /tools/:toolName of the request handler
PostTool(gen, name, args) ==
    LET x == ExecuteTool(gen, name, args, editor, externalToolsMap)
        req == ToolsCall(NoId, name, args)
        el == ToolsCallElement(NoId, x.call)
        ex == Exchange("rest", gen, NoSession, <<req>>, <<el>>, SettledIndices(<<el>>), FALSE)
    IN  /\ Started(ex, [sessions |-> sessions, editor |-> x.ed])
        /\ UNCHANGED issued

\* handleMcpEndpoint turning away a request that names no live session
PostMcpChecked(gen, sid, req) ==
    IF req.method # "initialize" /\ sid \notin DOMAIN sessions
    THEN /\ Started(Exchange("single", gen, sid, <<req>>,
                        <<Element("done",
                                  Handled(TRUE, JsonRpcError(req.id, -32600, "Invalid session"),
                                          NoSession, 0),
                                  NoCall)>>,
                        <<1>>, FALSE),
                    [sessions |-> sessions, editor |-> editor])
         /\ UNCHANGED issued
    ELSE \E ids \in FreshIds(Initializes(<<req>>)), now \in Times :
            LET m == MapRequests(<<req>>, gen, externalToolsMap,
                         [sessions |-> sessions, editor |-> editor, ids |-> ids, now |-> now])
                ex == Exchange("single", gen, sid, <<req>>, m.els, SettledIndices(m.els), FALSE)
            IN  /\ Started(ex, m.st)
                /\ issued' = issued \cup {ids[i] : i \in 1..Len(ids)}

\* POST /mcp with one JSON-RPC request: handleMcpEndpoint
PostMcp(gen, sid, req) ==
    \E ids \in FreshIds(Initializes(<<req>>)), now \in Times :
        LET m == MapRequests(<<req>>, gen, externalToolsMap,
                     [sessions |-> sessions, editor |-> editor, ids |-> ids, now |-> now])
            ex == Exchange("single", gen, sid, <<req>>, m.els, SettledIndices(m.els), FALSE)
        IN  /\ Started(ex, m.st)
            /\ issued' = issued \cup {ids[i] : i \in 1..Len(ids)}

\* handleMcpRequest(body, sessionId) of the bridge without batching, given
\* a list: the list has no jsonrpc member, and no id
InvalidList ==
    Element("done",
            Handled(TRUE, JsonRpcError(NoId, -32600,
                "Invalid Request: must be JSON-RPC 2.0"), NoSession, 0),
            NoCall)

\* POST /mcp with a list of JSON-RPC requests: handleMcpEndpoint, which
\* maps the list over handleMcpRequest where it has the batch branch
PostMcpBatch(gen, sid, reqs) ==
    IF gen = "registry"
    THEN /\ Started(Exchange("batch", gen, sid, reqs, <<InvalidList>>, <<1>>, FALSE),
                    [sessions |-> sessions, editor |-> editor])
         /\ UNCHANGED issued
    ELSE \E ids \in FreshIds(Initializes(reqs)), now \in Times :
            LET m == MapRequests(reqs, gen, externalToolsMap,
                         [sessions |-> sessions, editor |-> editor, ids |-> ids, now |-> now])
                ex == Exchange("batch", gen, sid, reqs, m.els, SettledIndices(m.els), FALSE)
            IN  /\ Started(ex, m.st)
                /\ issued' = issued \cup {ids[i] : i \in 1..Len(ids)}

\* The promise element i of exchange k awaits settles; executeTool goes on
\* and, when the exchange can answer, the handler writes the response
Settle(k, i, outcome) ==
    LET ex == inflight[k]
        x == ExecuteToolResume(ex.els[i].call, outcome, editor, externalToolsMap)
        el == ToolsCallElement(ex.reqs[i].id, x.call)
        ex2 == [ex EXCEPT !.els[i] = el,
                          !.order = IF el.st = "pending" THEN @ ELSE Append(@, i)]
    IN  /\ x.ed.len <= MaxText
        /\ editor' = x.ed
        /\ last' = IF ~ex.answered /\ CanReply(ex2) THEN Answered(ex2) ELSE NoExchange
        /\ inflight' = IF AllSettled(ex2) THEN RemoveAt(inflight, k)
                       ELSE [inflight EXCEPT ![k] = [ex2 EXCEPT !.answered = ex.answered \/ CanReply(ex2)]]
        /\ UNCHANGED <<sessions, issued, externalToolsMap, disposables>>

\* GET /tools of the request handler: {tools: [...builtinTools, ...externalTools]}
GetTools(gen) ==
    /\ Cardinality(Waiting(inflight)) < MaxInFlight
    /\ last' = [NoExchange EXCEPT
                  !.route = "tools", !.gen = gen,
                  !.reply = Reply(200,
                      <<[HandleToolsList(gen, NoId, externalToolsMap) EXCEPT !.kind = "rest"]>>,
                      NoSession, "")]
    /\ UNCHANGED <<sessions, issued, externalToolsMap, disposables, editor, inflight>>

\* DELETE /mcp of the request handler
DeleteMcp(sid) ==
    /\ sessions' = IF sid # NoSession /\ sid \in DOMAIN sessions
                   THEN SessionsDelete(sessions, sid) ELSE sessions
    /\ last' = [NoExchange EXCEPT !.route = "delete", !.sid = sid,
                                  !.reply = Reply(204, <<>>, NoSession, "")]
    /\ UNCHANGED <<issued, externalToolsMap, disposables, editor, inflight>>

\* The tool executor behind tools/call: registrations and disposals of
\* external tools, tools/call over POST /mcp and POST /tools/:toolName with
\* every tool of CallPool, and the settling of the calls in flight
Next ==
    \/ \E tools \in ArraysUpTo(ExternalPool, MaxTools) :
          /\ RegisteredNames(tools) # <<>> => Len(disposables) < MaxProviders
          /\ ConsumeMcpTools(TRUE, tools)
          /\ UNCHANGED hostVars
    \/ \E d \in 1..MaxProviders : Dispose(d) /\ UNCHANGED hostVars
    \/ \E gen \in Generations, req \in CallPool :
          PostMcp(gen, NoSession, req) /\ Connection(bridge)
    \/ \E gen \in Generations, req \in CallPool :
          PostTool(gen, req.name, req.args) /\ Connection(bridge)
    \/ \E k \in 1..Len(inflight) :
          \E i \in 1..Len(inflight[k].els) :
              /\ inflight[k].els[i].st = "pending"
              /\ \E outcome \in Outcomes(inflight[k].els[i].call) : Settle(k, i, outcome)
              /\ Completion(k)

Spec == Init /\ [][Next]_vars

\* The MCP endpoint: sessions, lists of requests, DELETE
NextMcp ==
    \/ \E tools \in ArraysUpTo(ExternalPool, MaxTools) :
          /\ RegisteredNames(tools) # <<>> => Len(disposables) < MaxProviders
          /\ ConsumeMcpTools(TRUE, tools)
          /\ UNCHANGED hostVars
    \/ \E d \in 1..MaxProviders : Dispose(d) /\ UNCHANGED hostVars
    \/ \E req \in ProtocolPool : PostMcp("tools", NoSession, req) /\ Connection(bridge)
    \/ \E gen \in Generations, reqs \in ArraysUpTo(BatchPool, MaxBatch) :
          PostMcpBatch(gen, NoSession, reqs) /\ Connection(bridge)
    \/ \E k \in 1..Len(inflight) :
          \E i \in 1..Len(inflight[k].els) :
              /\ inflight[k].els[i].st = "pending"
              /\ \E outcome \in OutcomesMcp(inflight[k].els[i].call) : Settle(k, i, outcome)
              /\ Completion(k)
    \/ \E sid \in SessionIds \cup {NoSession} : DeleteMcp(sid) /\ Connection(bridge)

SpecMcp == Init /\ [][NextMcp]_vars

\* The tool list and the tool calls under registrations, disposals and
\* sessions
NextTools ==
    \/ \E tools \in ArraysUpTo(ExternalPool, MaxListed) :
          /\ RegisteredNames(tools) # <<>> => Len(disposables) < MaxProviders
          /\ ConsumeMcpTools(TRUE, tools)
          /\ UNCHANGED hostVars
    \/ \E d \in 1..MaxProviders : Dispose(d) /\ UNCHANGED hostVars
    \/ \E gen \in Generations, sid \in SessionIds \cup {NoSession}, req \in ListPool :
          PostMcp(gen, sid, req) /\ Connection(bridge)
    \/ \E gen \in Generations : GetTools(gen) /\ Connection(bridge)
    \/ \E k \in 1..Len(inflight) :
          \E i \in 1..Len(inflight[k].els) :
              /\ inflight[k].els[i].st = "pending"
              /\ \E outcome \in OutcomesMcp(inflight[k].els[i].call) : Settle(k, i, outcome)
              /\ Completion(k)
    \/ \E sid \in SessionIds \cup {NoSession} : DeleteMcp(sid) /\ Connection(bridge)

SpecTools == Init /\ [][NextTools]_vars

-----------------------------------------------------------------------------
(* The request handler of startBridge as a whole: every verb, request      *)
(* target and body.  A target is valid when new URL(req.url, base) accepts *)
(* it; its path is "/mcp", "/health", "/tools", "/tools/" followed by one  *)
(* segment, or another one; the segment is given by its name and by the    *)
(* classes of its characters.  A body is "invalid" (JSON.parse throws), an *)
(* "object" or an "array".                                                 *)

\* A parseBody that takes whatever it reads for the empty object
ParsesAnything(body) == TRUE

\* parseBody(req) resolves: JSON.parse(body) does not throw
Parses(body) == body.kind # "invalid"

\* pathname.match(/^\/tools\/([A-Z][a-zA-Z]*)$/)
ToolMatch(target) ==
    /\ target.path = "/tools/"
    /\ target.shape # << >>
    /\ target.shape[1] = "upper"
    /\ \A i \in 1..Len(target.shape) : target.shape[i] \in {"upper", "lower"}

\* The request handler, from its entry to its first suspension.  A reply of
\* status 0 is none: the promise of the handler is rejected outside its try
HttpRequest(gen, verb, target, sid, body) ==
    LET Direct(route, reply) ==
            /\ last' = [NoExchange EXCEPT !.route = route, !.gen = gen, !.sid = sid,
                                          !.reply = reply]
            /\ UNCHANGED <<sessions, issued, externalToolsMap, disposables, editor, inflight>>
    IN  IF verb = "OPTIONS" THEN Direct("options", Reply(204, << >>, NoSession, ""))
        ELSE IF ~target.valid
        THEN Direct("rejected", Reply(0, << >>, NoSession, "Invalid URL"))
        ELSE IF verb = "POST" /\ target.path = "/mcp"
        THEN CASE ~Parses(body) ->
                    Direct("parse",
                           Reply(400, <<JsonRpcError(NullId, -32700, "Parse error: invalid JSON")>>,
                                 NoSession, ""))
               [] body.kind = "null" ->
                    Direct("threw",
                           Reply(500, << >>, NoSession,
                                 "Cannot destructure property 'jsonrpc' of 'body' as it is null."))
               [] body.kind = "array" /\ gen = "tools" -> PostMcpBatch(gen, sid, body.reqs)
               [] body.kind = "array" /\ gen = "registry" -> PostMcpBatch(gen, sid, body.reqs)
               [] OTHER -> PostMcp(gen, sid, body.reqs[1])
        ELSE IF verb = "DELETE" /\ target.path = "/mcp"
        THEN DeleteMcp(sid)
        ELSE IF verb = "GET" /\ target.path = "/health"
        THEN Direct("health", Reply(200, << >>, NoSession, ""))
        ELSE IF verb = "GET" /\ target.path = "/tools"
        THEN GetTools(gen)
        ELSE IF verb = "POST" /\ ToolMatch(target)
        THEN IF ~Parses(body)
             THEN Direct("rest", Reply(500, << >>, NoSession, "Invalid JSON body"))
             ELSE PostTool(gen, target.name, body.reqs[1].args)
        ELSE /\ last' = [NoExchange EXCEPT
                            !.route = "notfound", !.gen = gen, !.sid = sid,
                            !.reqs = IF verb = "POST" /\ target.path = "/tools/"
                                     THEN <<ToolsCall(NoId, target.name, NoArgs)>> ELSE << >>,
                            !.reply = Reply(404, << >>, NoSession, "Not found")]
             /\ UNCHANGED <<sessions, issued, externalToolsMap, disposables, editor, inflight>>

\* The promise element i of exchange k awaits will never settle
Hang(k, i) ==
    /\ inflight[k].els[i].st = "pending"
    /\ \A j \in 1..Len(inflight) : \A e \in 1..Len(inflight[j].els) :
          inflight[j].els[e].st # "hung"
    /\ inflight' = [inflight EXCEPT ![k].els[i].st = "hung"]
    /\ last' = NoExchange
    /\ UNCHANGED <<sessions, issued, externalToolsMap, disposables, editor>>

\* The HTTP requests of the runs: POST /mcp with every kind of body, POST
\* /tools/ with segments that match the pattern and that do not, GET,
\* DELETE and OPTIONS, a target new URL rejects.  A body that does not
\* parse carries the empty object a lenient parser would make of it, and
\* so does the body null, which is JSON and has no members to read
HttpInputs ==
    LET Rpc(version, n, m, tool) ==
            Request(version, n, m, tool,
                    IF tool = "OpenFile" THEN Args("undefined", "string", FALSE)
                    ELSE IF tool = "InsertText" THEN Args("string", "undefined", FALSE)
                    ELSE NoArgs,
                    "", "undefined")
        Requests ==
            { Rpc("2.0", 1, "ping", ""), Rpc("2.0", NoId, "ping", ""),
              Rpc("2.0", 2, "initialize", ""),
              Rpc("2.0", NoId, "notifications/initialized", ""),
              Rpc("2.0", 3, "tools/list", ""), Rpc("2.0", 4, "tools/call", ""),
              Rpc("2.0", 4, "tools/call", "OpenFile"), Rpc("2.0", 5, "tools/call", "Ext"),
              Rpc("2.0", 6, "foo", ""),
              Rpc("1.0", 4, "tools/call", "OpenFile"), Rpc("", 2, "initialize", ""),
              Rpc("", NoId, "notifications/initialized", "") }
        Body(kind, reqs) == [kind |-> kind, reqs |-> reqs]
        Invalid == Body("invalid", <<Rpc("", NoId, "", "")>>)
        None == Body("object", <<Rpc("", NoId, "", "")>>)
        Bodies ==
            {Invalid, Body("null", <<Rpc("", NoId, "", "")>>)}
            \cup {Body("object", <<r>>) : r \in Requests}
            \cup {Body("array", <<Rpc("1.0", 4, "tools/call", "OpenFile"),
                                  Rpc("2.0", 1, "ping", "")>>)}
        Path(q) == [valid |-> q # "//", path |-> q, name |-> "", shape |-> << >>]
        Tool(tool, shape) == [valid |-> TRUE, path |-> "/tools/", name |-> tool, shape |-> shape]
        Tools ==
            { Tool("", << >>), Tool("OpenFile", <<"upper", "lower", "upper", "lower">>),
              Tool("Ext", <<"upper", "lower">>),
              Tool("openFile", <<"lower", "upper", "lower">>),
              Tool("Open_File", <<"upper", "lower", "other", "upper", "lower">>) }
        Http(verb, target, sid, body) ==
            [verb |-> verb, target |-> target, sid |-> sid, body |-> body]
    IN  {Http("POST", Path("/mcp"), NoSession, body) : body \in Bodies}
        \cup {Http("POST", target, NoSession, body) :
                 target \in Tools,
                 body \in {Invalid, Body("object", <<Rpc("2.0", 4, "tools/call", "OpenFile")>>)}}
        \cup {Http("POST", Tool("InsertText", <<"upper", "lower", "upper", "lower">>), NoSession,
                   Body("object", <<Rpc("2.0", 4, "tools/call", "InsertText")>>))}
        \cup {Http("GET", Path(q), NoSession, None) : q \in {"/health", "/tools", "//"}}
        \cup {Http("DELETE", Path("/mcp"), sid, None) : sid \in SessionIds \cup {NoSession}}
        \cup {Http("OPTIONS", Path("//"), NoSession, Invalid),
              Http("POST", Path("/other"), NoSession, Invalid)}

\* The HTTP interface: every route with well-formed and malformed requests,
\* and the tool calls they start running to completion
NextHttp ==
    \/ /\ Len(disposables) < MaxProviders
       /\ ConsumeMcpTools(TRUE, <<ExternalTool("Ext", "", "", "undefined", TRUE)>>)
       /\ UNCHANGED hostVars
    \/ \E gen \in Generations, in \in HttpInputs :
          HttpRequest(gen, in.verb, in.target, in.sid, in.body) /\ Connection(bridge)
    \/ \E k \in 1..Len(inflight) :
          \E i \in 1..Len(inflight[k].els) :
              /\ inflight[k].els[i].st = "pending"
              /\ \E outcome \in OutcomesMcp(inflight[k].els[i].call) : Settle(k, i, outcome)
              /\ Completion(k)

SpecHttp == Init /\ [][NextHttp]_vars

\* A tool call that hangs among the requests a client sends meanwhile:
\* the well-formed requests of HttpInputs that name no external tool
NextHang ==
    \/ \E gen \in Generations :
          \E in \in {h \in HttpInputs :
                        /\ h.target.valid
                        /\ \/ h.verb \in {"GET", "DELETE"}
                           \/ /\ h.verb = "POST" /\ h.target.path = "/mcp"
                              /\ h.body.kind = "object"
                              /\ h.body.reqs[1].jsonrpc = "2.0"
                              /\ h.body.reqs[1].method \in {"initialize", "ping", "tools/list", "tools/call"}
                              /\ h.body.reqs[1].name \in {"", "OpenFile"}} :
              HttpRequest(gen, in.verb, in.target, in.sid, in.body) /\ Connection(bridge)
    \/ \E k \in 1..Len(inflight) :
          \E i \in 1..Len(inflight[k].els) :
              /\ inflight[k].els[i].st = "pending"
              /\ \E outcome \in OutcomesMcp(inflight[k].els[i].call) : Settle(k, i, outcome)
              /\ Completion(k)
    \/ \E k \in 1..Len(inflight) :
          \E i \in 1..Len(inflight[k].els) : Hang(k, i) /\ UNCHANGED hostVars

SpecHang == Init /\ [][NextHang]_vars

\* The request target of callBridge(toolName, args): the name goes into the
\* path as it is, `/tools/${toolName}`, and the bridge matches the path
\* against its pattern character by character
CallBridgeTarget(name) ==
    [valid |-> TRUE, path |-> "/tools/", name |-> name,
     shape |-> CASE name = "" -> << >>
                 [] name = "my_tool" -> <<"lower", "lower", "other", "lower">>
                 [] OTHER -> <<"upper", "lower">>]

\* Packages that provide tools and take them back, and a client that lists
\* the tools and calls over POST /tools/:toolName the names it was given
NextProviders ==
    \/ \E isArray \in BOOLEAN :
          \E tools \in ArraysUpTo({ExternalTool("Ext", "", "", "undefined", TRUE),
                                   ExternalTool("my_tool", "", "", "undefined", TRUE),
                                   ExternalTool("", "", "", "undefined", TRUE),
                                   ExternalTool("Broken", "", "", "undefined", FALSE)},
                                  MaxListed) :
              /\ isArray /\ RegisteredNames(tools) # <<>> => Len(disposables) < MaxRegistrations
              /\ ConsumeMcpTools(isArray, tools)
              /\ UNCHANGED hostVars
    \/ \E d \in 1..MaxRegistrations : Dispose(d) /\ UNCHANGED hostVars
    \/ \E gen \in Generations : GetTools(gen) /\ Connection(bridge)
    \/ \E gen \in Generations :
          \E name \in {"GetActiveEditor"} \cup {externalToolsMap[i].name : i \in 1..Len(externalToolsMap)} :
              /\ HttpRequest(gen, "POST", CallBridgeTarget(name), NoSession,
                             [kind |-> "object", reqs |-> <<ToolsCall(NoId, name, NoArgs)>>])
              /\ Connection(bridge)
    \/ \E k \in 1..Len(inflight) :
          \E i \in 1..Len(inflight[k].els) :
              /\ inflight[k].els[i].st = "pending"
              /\ \E outcome \in OutcomesMcp(inflight[k].els[i].call) : Settle(k, i, outcome)
              /\ Completion(k)

SpecProviders == Init /\ [][NextProviders]_vars

-----------------------------------------------------------------------------
(* The stdio relay (server.js): a process of its own that reads JSON-RPC   *)
(* lines from standard input, asks the bridge over HTTP and writes one    *)
(* line per answer to standard output.                                    *)

\* The lines standard input delivers: text that is not JSON, the JSON
\* values null and 5, and objects with and without id, method and params
RelayLines ==
    LET Line(kind, hasId, n, m, hasParams) ==
            [kind |-> kind, hasId |-> hasId, id |-> n, method |-> m, hasParams |-> hasParams]
    IN  {Line("invalid", FALSE, NoId, "", FALSE),
         Line("null", FALSE, NoId, "", FALSE),
         Line("scalar", FALSE, NoId, "", FALSE)}
        \cup {Line("object", TRUE, n, m, TRUE) :
                 n \in 1..MaxLines, m \in {"initialize", "tools/list", "tools/call", "foo"}}
        \cup {Line("object", FALSE, NoId, m, TRUE) :
                 m \in {"notifications/initialized", "tools/list", "tools/call", "foo"}}
        \cup {Line("object", TRUE, NullId, "tools/list", TRUE),
              Line("object", TRUE, 1, "tools/call", FALSE),
              Line("object", TRUE, 1, "", FALSE)}

\* A relay that takes every line for a request
HasIdAlways(req) == TRUE

\* req.id !== undefined, for a value that has properties
HasId(req) == req.kind = "object" /\ req.hasId

\* handleRequest(req) up to its first await: the result it returns, the
\* value it throws, or the fetch it waits for
HandleRequest(req) ==
    CASE req.method = "initialize" ->
            [pc |-> "done",
             msg |-> JsonRpcResponse(req.id, Result("initialize", FALSE, "2024-11-05", FALSE, <<>>))]
      [] req.method = "tools/list" ->
            [pc |-> "health", msg |-> JsonRpcError(req.id, 0, "")]
      [] req.method = "tools/call" ->
            IF ~req.hasParams
            THEN [pc |-> "done", msg |-> JsonRpcError(req.id, -32603, "Cannot destructure")]
            ELSE [pc |-> "health", msg |-> JsonRpcError(req.id, 0, "")]
      [] OTHER ->
            [pc |-> "done",
             msg |-> JsonRpcError(req.id, -32601, "Method not found: " \o req.method)]

\* rl.on("line", async (line) => ...) up to its first await
RelayLine(line) ==
    /\ ~relay.crashed
    /\ relay.read < MaxLines
    /\ relay' =
         IF line.kind = "invalid"
         THEN [relay EXCEPT !.read = @ + 1,
                            !.stdout = Append(@, JsonRpcError(NullId, -32700, "Parse error"))]
         ELSE IF line.kind = "null"
         THEN [relay EXCEPT !.read = @ + 1, !.crashed = TRUE, !.stderr = @ + 1]
         ELSE IF ~HasId(line)
         THEN [relay EXCEPT !.read = @ + 1]
         ELSE LET h == HandleRequest(line)
              IN  IF h.pc = "done"
                  THEN [relay EXCEPT !.read = @ + 1, !.stdout = Append(@, h.msg)]
                  ELSE [relay EXCEPT !.read = @ + 1, !.fetches = @ + 1,
                                     !.pending = Append(@, [req |-> line, pc |-> h.pc])]
    /\ UNCHANGED <<sessions, issued, externalToolsMap, disposables, editor, inflight, last,
                   active, bridge, bridgePort, servers, tasks, taken, conns, unhandled, notice>>

\* What a fetch of the relay meets: no listener on the port (fetch throws),
\* or a response with a status that is 2xx or not and a body that is JSON
\* or not; a JSON body is the bridge's {success, data}, {success, error} or
\* {error}, and for GET /health and GET /tools its members are not read
BridgeReplies ==
    LET Met(reached, ok, json, success, hasError, hasData) ==
            [reached |-> reached, ok |-> ok, json |-> json, success |-> success,
             hasError |-> hasError, hasData |-> hasData]
    IN  { Met(FALSE, FALSE, FALSE, FALSE, FALSE, FALSE),
          Met(TRUE, TRUE, TRUE, TRUE, FALSE, TRUE),
          Met(TRUE, FALSE, TRUE, FALSE, TRUE, FALSE),
          Met(TRUE, FALSE, TRUE, FALSE, FALSE, TRUE),
          Met(TRUE, TRUE, FALSE, FALSE, FALSE, FALSE),
          Met(TRUE, FALSE, FALSE, FALSE, FALSE, FALSE) }

\* A relay that takes the bridge for available without asking
CheckBridgeAlways(reply) == TRUE

\* checkBridge(): response.ok, or false when fetch throws
CheckBridge(reply) == reply.reached /\ reply.ok

\* A fetchToolsFromBridge that does not look at response.ok
FetchToolsUnchecked(reply) ==
    IF ~reply.reached THEN [thrown |-> TRUE, message |-> "fetch failed"]
    ELSE [thrown |-> FALSE, message |-> ""]

\* fetchToolsFromBridge(): what it throws, or that it returns data.tools
FetchToolsFromBridge(reply) ==
    IF ~reply.reached THEN [thrown |-> TRUE, message |-> "fetch failed"]
    ELSE IF ~reply.ok THEN [thrown |-> TRUE, message |-> "Failed to fetch tools from bridge"]
    ELSE IF ~reply.json THEN [thrown |-> TRUE, message |-> "Unexpected token in JSON"]
    ELSE [thrown |-> FALSE, message |-> ""]

\* A callBridge that returns result.data whatever the bridge reported
CallBridgeUnchecked(reply) ==
    IF ~reply.reached THEN [thrown |-> TRUE, message |-> "fetch failed", hasData |-> FALSE]
    ELSE IF ~reply.json
    THEN [thrown |-> TRUE, message |-> "Unexpected token in JSON", hasData |-> FALSE]
    ELSE [thrown |-> FALSE, message |-> "", hasData |-> reply.hasData]

\* callBridge(toolName, args): the Error it throws, with result.error or
\* `Tool call failed: ${toolName}` as message, or that it returns result.data
CallBridge(reply) ==
    IF ~reply.reached THEN [thrown |-> TRUE, message |-> "fetch failed", hasData |-> FALSE]
    ELSE IF ~reply.json
    THEN [thrown |-> TRUE, message |-> "Unexpected token in JSON", hasData |-> FALSE]
    ELSE IF ~reply.ok \/ ~reply.success
    THEN [thrown |-> TRUE,
          message |-> IF reply.hasError THEN "result.error" ELSE "Tool call failed: toolName",
          hasData |-> FALSE]
    ELSE [thrown |-> FALSE, message |-> "", hasData |-> reply.hasData]

\* A fetch of the relay returns: checkBridge gives response.ok or false,
\* fetchToolsFromBridge and callBridge return or throw; handleRequest goes
\* on to its next fetch or the listener sends the answer, for a thrown
\* value {id, error: {code: e.code || -32603, message: e.message}}
RelayResume(p, reply) ==
    LET h == relay.pending[p]
        Sent(msg) == [relay EXCEPT !.pending = RemoveAt(@, p), !.stdout = Append(@, msg)]
        tools == FetchToolsFromBridge(reply)
        call == CallBridge(reply)
    IN  /\ ~relay.crashed
        /\ relay' =
             CASE h.pc = "health" ->
                    IF CheckBridge(reply)
                    THEN [relay EXCEPT !.fetches = @ + 1,
                                       !.pending[p].pc = IF h.req.method = "tools/list"
                                                         THEN "tools" ELSE "call"]
                    ELSE Sent(JsonRpcError(h.req.id, -32603,
                                  "Pulsar bridge not available at http://127.0.0.1:3000. "
                                      \o "Make sure Pulsar is running with the pulsar-mcp package activated."))
               [] h.pc = "tools" ->
                    IF tools.thrown THEN Sent(JsonRpcError(h.req.id, -32603, tools.message))
                    ELSE Sent(JsonRpcResponse(h.req.id, Result("tools", FALSE, "", FALSE, <<>>)))
               [] OTHER ->
                    IF call.thrown THEN Sent(JsonRpcError(h.req.id, -32603, call.message))
                    ELSE Sent(JsonRpcResponse(h.req.id,
                                  Result("call", call.hasData, "result.data", FALSE, <<>>)))
        /\ UNCHANGED <<sessions, issued, externalToolsMap, disposables, editor, inflight, last,
                       active, bridge, bridgePort, servers, tasks, taken, conns, unhandled, notice>>

\* The relay reading lines while its fetches return in any order
NextRelay ==
    \/ \E line \in RelayLines : RelayLine(line)
    \/ \E p \in 1..Len(relay.pending), reply \in BridgeReplies : RelayResume(p, reply)

SpecRelay == Init /\ [][NextRelay]_vars

-----------------------------------------------------------------------------
(* The lifecycle of the bridge: main.js and startBridge / stopBridge.     *)

\* The request of the runs of the lifecycle: a call that waits for the
\* workspace, so that it is in flight when the bridge is stopped
HostPool == { ToolsCall(4, "OpenFile", Args("undefined", "string", FALSE)) }

\* The values of the setting pulsar-mcp.bridgePort in the runs
ConfigPorts == {DEFAULT_PORT}

\* The package as loaded: not activated, no bridge
InitHost ==
    /\ InitBridge
    /\ active = FALSE
    /\ bridge = NoBridge
    /\ bridgePort = NoPort
    /\ servers = << >>
    /\ tasks = << >>
    /\ taken = {}
    /\ conns = << >>
    /\ unhandled = FALSE
    /\ notice = NoNotice
    /\ relay = RelayStarted

\* A step of the host or of the system: no request is handled in it
HostStep ==
    /\ last' = NoExchange
    /\ UNCHANGED <<sessions, issued, externalToolsMap, disposables, editor, inflight, conns, relay>>

\* server.listen(port, host) binds on the next tick of the loop, before any
\* command or probe of the host runs: only other processes act meanwhile
NoneBinding == \A s \in 1..Len(servers) : servers[s].st # "binding"

\* main.js startBridge() up to its await: nothing when a bridge is set,
\* else the call waits in findAvailablePort(basePort)
HostStartBridge(op, basePort) ==
    IF bridge # NoBridge THEN tasks
    ELSE Append(tasks, Task(op, basePort, << >>, NoBridge, FALSE))

\* server.close() of bridge.stop(): the listener is released at once, and
\* a server that is not listening is not running
ServerClose(srvs, s) ==
    IF srvs[s].st = "listening" THEN [srvs EXCEPT ![s].st = "closing"] ELSE srvs

\* main.js stopBridge() up to its await: nothing when no bridge is set,
\* else the call waits in bridge.stop()
HostStopBridge(op) ==
    IF bridge = NoBridge THEN tasks
    ELSE Append(tasks, Task(op, NoPort, << >>, bridge, servers[bridge].st # "listening"))

\* activate(): the commands are registered, and the bridge is started when
\* pulsar-mcp.autoStart is set
Activate(autoStart, basePort) ==
    /\ ~active
    /\ NoneBinding
    /\ Len(tasks) < MaxTasks
    /\ active' = TRUE
    /\ tasks' = IF autoStart THEN HostStartBridge("autoStart", basePort) ELSE tasks
    /\ UNCHANGED <<bridge, bridgePort, servers, taken, unhandled, notice>>
    /\ HostStep

\* The command pulsar-mcp:start, up to its await
StartCommand(basePort) ==
    /\ active
    /\ NoneBinding
    /\ Len(tasks) < MaxTasks
    /\ tasks' = HostStartBridge("start", basePort)
    /\ notice' = IF bridge # NoBridge THEN Notice("already running", NoError) ELSE notice
    /\ UNCHANGED <<active, bridge, bridgePort, servers, taken, unhandled>>
    /\ HostStep

\* The command pulsar-mcp:stop, up to its await
StopCommand ==
    /\ active
    /\ NoneBinding
    /\ Len(tasks) < MaxTasks
    /\ tasks' = HostStopBridge("stop")
    /\ servers' = IF bridge = NoBridge THEN servers ELSE ServerClose(servers, bridge)
    /\ notice' = IF bridge = NoBridge THEN Notice("not running", NoError) ELSE notice
    /\ UNCHANGED <<active, bridge, bridgePort, taken, unhandled>>
    /\ HostStep

\* deactivate(): the commands go, and stopBridge() is called and not awaited
Deactivate ==
    /\ active
    /\ NoneBinding
    /\ Len(tasks) < MaxTasks
    /\ active' = FALSE
    /\ tasks' = HostStopBridge("deactivate")
    /\ servers' = IF bridge = NoBridge THEN servers ELSE ServerClose(servers, bridge)
    /\ UNCHANGED <<bridge, bridgePort, taken, unhandled, notice>>
    /\ HostStep

\* A start that begins the search again when it has run out of ports
ProbeRetrying(t) ==
    LET task == tasks[t]
        port == ProbedPort(task.startPort, task.probed)
        probed == Append(task.probed, port)
    IN  /\ task.op \in {"autoStart", "start"}
        /\ NoneBinding
        /\ IF CanBind(port, taken, servers)
           THEN /\ Len(servers) < MaxServers
                /\ servers' = Append(servers, Server(port, "binding"))
                /\ bridge' = Len(servers) + 1
                /\ bridgePort' = port
                /\ tasks' = RemoveAt(tasks, t)
                /\ notice' = IF task.op = "start" THEN Notice("started", NoError) ELSE notice
           ELSE IF AttemptsExhausted(probed, MaxAttempts)
           THEN /\ tasks' = [tasks EXCEPT ![t].probed = << >>]
                /\ notice' = Notice(IF task.op = "start" /\ bridge # NoBridge
                                    THEN "started" ELSE "failed to start",
                                    PortError(task.startPort, MaxAttempts))
                /\ UNCHANGED <<servers, bridge, bridgePort>>
           ELSE /\ tasks' = [tasks EXCEPT ![t].probed = probed]
                /\ UNCHANGED <<servers, bridge, bridgePort, notice>>
        /\ UNCHANGED <<active, taken, unhandled>>
        /\ HostStep

\* isPortAvailable(port) of call t has answered; findAvailablePort goes on.
\* A free port: startBridge creates the server, calls server.listen and
\* returns the handle, which main.js keeps. A port in use: the next port,
\* or the error once maxAttempts ports were tried, which main.js reports
Probe(t) ==
    LET task == tasks[t]
        port == ProbedPort(task.startPort, task.probed)
        probed == Append(task.probed, port)
    IN  /\ task.op \in {"autoStart", "start"}
        /\ NoneBinding
        /\ IF CanBind(port, taken, servers)
           THEN /\ Len(servers) < MaxServers
                /\ servers' = Append(servers, Server(port, "binding"))
                /\ bridge' = Len(servers) + 1
                /\ bridgePort' = port
                /\ tasks' = RemoveAt(tasks, t)
                /\ notice' = IF task.op = "start" THEN Notice("started", NoError) ELSE notice
           ELSE IF AttemptsExhausted(probed, MaxAttempts)
           THEN /\ tasks' = RemoveAt(tasks, t)
                /\ notice' = Notice(IF task.op = "start" /\ bridge # NoBridge
                                    THEN "started" ELSE "failed to start",
                                    PortError(task.startPort, MaxAttempts))
                /\ UNCHANGED <<servers, bridge, bridgePort>>
           ELSE /\ tasks' = [tasks EXCEPT ![t].probed = probed]
                /\ UNCHANGED <<servers, bridge, bridgePort, notice>>
        /\ UNCHANGED <<active, taken, unhandled>>
        /\ HostStep

\* The bind of server.listen(port, host) is decided: 'listening', or
\* 'error' with EADDRINUSE, for which startBridge has set no listener
Bind(s) ==
    /\ servers[s].st = "binding"
    /\ IF CanBind(servers[s].port, taken, servers)
       THEN /\ servers' = [servers EXCEPT ![s].st = "listening"]
            /\ UNCHANGED unhandled
       ELSE /\ servers' = [servers EXCEPT ![s].st = "failed"]
            /\ unhandled' = TRUE
    /\ UNCHANGED <<active, bridge, bridgePort, tasks, taken, notice>>
    /\ HostStep

\* Another process binds a port no listener of the bridge holds
OtherBinds(port) ==
    /\ port \notin taken
    /\ CanBind(port, taken, servers)
    /\ taken' = taken \cup {port}
    /\ UNCHANGED <<active, bridge, bridgePort, servers, tasks, unhandled, notice>>
    /\ HostStep

\* Another process releases its port
OtherReleases(port) ==
    /\ port \in taken
    /\ taken' = taken \ {port}
    /\ UNCHANGED <<active, bridge, bridgePort, servers, tasks, unhandled, notice>>
    /\ HostStep

\* A stopBridge() that forgets the handle and keeps the port when closing failed
CloseDoneKeepingPort(t) ==
    LET task == tasks[t]
        s == task.server
    IN  /\ task.op \in {"stop", "deactivate"}
        /\ NoneBinding
        /\ OpenOn(s) = {}
        /\ servers' = IF servers[s].st = "closing"
                      THEN [servers EXCEPT ![s].st = "closed"] ELSE servers
        /\ bridge' = NoBridge
        /\ bridgePort' = IF task.err THEN bridgePort ELSE NoPort
        /\ tasks' = RemoveAt(tasks, t)
        /\ notice' = IF task.op = "stop"
                     THEN Notice("stopped", IF task.err THEN [NoError EXCEPT !.name = "ERR_SERVER_NOT_RUNNING"] ELSE NoError)
                     ELSE notice
        /\ UNCHANGED <<active, taken, unhandled>>
        /\ last' = NoExchange
        /\ UNCHANGED <<sessions, issued, externalToolsMap, disposables, editor, inflight, conns, relay>>

\* The callback of server.close() of call t is called, once the connections
\* of the server have ended: bridge.stop() settles and stopBridge() of
\* main.js goes on: the error is logged, the handle and its port forgotten
CloseDone(t) ==
    LET task == tasks[t]
        s == task.server
    IN  /\ task.op \in {"stop", "deactivate"}
        /\ NoneBinding
        /\ OpenOn(s) = {}
        /\ servers' = IF servers[s].st = "closing"
                      THEN [servers EXCEPT ![s].st = "closed"] ELSE servers
        /\ bridge' = NoBridge
        /\ bridgePort' = NoPort
        /\ tasks' = RemoveAt(tasks, t)
        /\ notice' = IF task.op = "stop"
                     THEN Notice("stopped", IF task.err THEN [NoError EXCEPT !.name = "ERR_SERVER_NOT_RUNNING"] ELSE NoError)
                     ELSE notice
        /\ UNCHANGED <<active, taken, unhandled>>
        /\ last' = NoExchange
        /\ UNCHANGED <<sessions, issued, externalToolsMap, disposables, editor, inflight, conns, relay>>

\* The host package with its bridge: commands, the port search, binds,
\* other processes taking and releasing ports, requests that come in on a
\* listening server and calls in flight that go on while a server listens
\* or closes
NextHost ==
    \/ \E autoStart \in BOOLEAN, basePort \in ConfigPorts : Activate(autoStart, basePort)
    \/ \E basePort \in ConfigPorts : StartCommand(basePort)
    \/ StopCommand
    \/ Deactivate
    \/ \E t \in 1..Len(tasks) : Probe(t)
    \/ \E s \in 1..Len(servers) : Bind(s)
    \/ \E port \in Ports : OtherBinds(port)
    \/ \E port \in Ports : OtherReleases(port)
    \/ \E t \in 1..Len(tasks) : CloseDone(t)
    \/ \E s \in 1..Len(servers), req \in HostPool :
          /\ servers[s].st = "listening"
          /\ PostMcp("tools", NoSession, req)
          /\ Connection(s)
    \/ \E k \in 1..Len(inflight) :
          \E i \in 1..Len(inflight[k].els) :
              /\ inflight[k].els[i].st = "pending"
              /\ \E outcome \in OutcomesMcp(inflight[k].els[i].call) : Settle(k, i, outcome)
              /\ Completion(k)

SpecHost == InitHost /\ [][NextHost]_vars


-----------------------------------------------------------------------------
(* Claims about the tool executor, checked under Spec.  `last` is the     *)
(* exchange the latest step answered; a step that answers and leaves      *)
(* `inflight` alone received a request and answered it at once.           *)

\* The names of the built-in tools of a bridge generation
BuiltinNames(gen) == IF gen = "registry" THEN RegistryNames ELSE ToolNames

\* The procedures a call has invoked
Invoked(call) == {call.invoked[j] : j \in 1..Len(call.invoked)}

\* A request was received and answered in this step
AnsweredAtOnce == last'.route # "none" /\ inflight' = inflight

\* C1: when a tool's procedure completes without throwing, the envelope has
\* success = false if it returned false or null, and success = true for
\* every other return value.
C1_SentinelDecidesSuccess ==
    \A i \in 1..Len(last.calls) :
        (last.calls[i].pc = "done" /\ last.calls[i].ran.st = "return")
            => (last.calls[i].env.success <=> last.calls[i].ran.val \notin {False, Null})

\* C2: for a tool name of the built-in registry, executeTool never invokes
\* the external tool of that name; a failure of the built-in path (a thrown
\* exception, whatever its message) is the envelope returned.
C2_BuiltinsTakePrecedence ==
    \A i \in 1..Len(last.calls) :
        LET call == last.calls[i]
        IN  (call.pc # "none" /\ call.name \in BuiltinNames(call.gen))
                => /\ "external" \notin Invoked(call)
                   /\ call.ran.st = "throw" => ~call.env.success /\ call.env.hasError

C4_ToolFailuresAreResults ==
    \A i \in 1..Len(last.reqs) :
        LET req == last.reqs[i]
            call == last.calls[i]
        IN  ( /\ last.route = "single"
              /\ req.jsonrpc = "2.0"
              /\ req.method = "tools/call"
              /\ req.name # "" )
            => /\ last.reply.status = 200
               /\ Len(last.reply.body) = 1
               /\ last.reply.body[1].kind = "result"
               /\ last.reply.body[1].result.rtype = "content"
               /\ last.reply.body[1].result.hasText
               /\ last.reply.body[1].result.isError = ~call.env.success
               /\ call.ran.st = "throw" => last.reply.body[1].result.isError
               /\ (call.ran.st = "return" /\ call.ran.val \in {False, Null})
                      => last.reply.body[1].result.isError
               /\ call.env.success =>
                      last.reply.body[1].result.text = JsonStringify(call.env.data).text

\* The message of the first required argument a call of a built-in tool
\* fails, "" when it fails none
FailedCheck(gen, req) ==
    IF req.name \notin BuiltinNames(gen) THEN ""
    ELSE IF req.name \in {"InsertText", "SetTextInRange"} /\ req.args.text # "string"
    THEN "text is required"
    ELSE IF req.name = "SetTextInRange" /\ ~req.args.range
    THEN "start and end positions are required"
    ELSE IF req.name = "OpenFile" /\ req.args.path # "string"
    THEN "path is required"
    ELSE ""

\* The response of a tools/call to a request that fails a check
IsValidationReply(exchange) ==
    /\ exchange.reply.status = 200
    /\ exchange.reply.body =
          << [id |-> exchange.reqs[1].id, kind |-> "result", code |-> 0, message |-> "",
              result |-> [rtype |-> "content", hasText |-> TRUE,
                          text |-> FailedCheck(exchange.gen, exchange.reqs[1]),
                          isError |-> TRUE, tools |-> <<>>]] >>
    /\ exchange.gen = "registry" => exchange.calls[1].invoked = <<>>

\* A single tools/call for a built-in tool whose arguments fail a check
FailsValidation(exchange) ==
    /\ exchange.route = "single"
    /\ exchange.reqs[1].jsonrpc = "2.0"
    /\ exchange.reqs[1].method = "tools/call"
    /\ FailedCheck(exchange.gen, exchange.reqs[1]) # ""

\* C5: a tools/call for an existing tool whose arguments fail validation
\* changes nothing in the editor and is answered, with status 200, by a
\* result with isError: true whose text is the message of the first failing
\* argument; the registry executor does not invoke the procedure.
C5_ValidationFailure ==
    /\ [](FailsValidation(last) => IsValidationReply(last))
    /\ [][ (AnsweredAtOnce /\ FailsValidation(last')) => editor' = editor ]_vars

\* C5 witness: InsertText without text was answered while an editor is open
C5_Witness ==
    /\ FailsValidation(last)
    /\ last.reqs[1].name = "InsertText"
    /\ last.gen = "tools"
    /\ editor.open
    /\ editor.len < MaxText

-----------------------------------------------------------------------------
(* Claims about the MCP endpoint, checked under SpecMcp. *)

\* The JSON-RPC ids of the elements of a list that are not notifications,
\* in the order of the list
ExpectedIds(reqs) ==
    LET kept == SelectSeq(reqs, LAMBDA r : r.method # "notifications/initialized")
    IN  [i \in 1..Len(kept) |-> kept[i].id]

\* The JSON-RPC ids of the responses of a reply, in the order of its body
BodyIds(reply) == [i \in 1..Len(reply.body) |-> reply.body[i].id]

\* C7: a POST /mcp whose body is a list is answered with an array holding
\* exactly one response for each element that is not a notification and none
\* for a notification; a list of notifications only is answered 202 with an
\* empty body.
C7_BatchFiltersNotifications ==
    (last.route = "batch" /\ last.reqs # <<>>)
        => IF ExpectedIds(last.reqs) = <<>>
           THEN last.reply.status = 202 /\ last.reply.body = <<>>
           ELSE /\ last.reply.status = 200
                /\ Len(last.reply.body) = Len(ExpectedIds(last.reqs))
                /\ \A i \in 1..Len(last.reply.body) :
                       last.reply.body[i].id = ExpectedIds(last.reqs)[i]

\* C8: the responses of a batch reply are in the order of their requests in
\* the list, whatever the order in which the elements completed.
C8_BatchOrder ==
    (last.route = "batch" /\ last.gen = "tools" /\ last.reply.status = 200)
        => BodyIds(last.reply) = ExpectedIds(last.reqs)

\* C8 witness: a batch of two suspending tools/call elements was answered
\* after the second element completed before the first
C8_Witness ==
    /\ last.route = "batch"
    /\ last.gen = "tools"
    /\ last.reply.status = 200
    /\ Len(last.reqs) = 2
    /\ last.completed = <<2, 1>>
    /\ BodyIds(last.reply) = <<last.reqs[1].id, last.reqs[2].id>>
    /\ last.reqs[1].id # last.reqs[2].id

\* The requests the handler dispatched in this step: those of the exchange
\* that it started.  The bridge without batching dispatches no element of
\* a list.
Dispatched ==
    LET ex == IF Len(inflight') > Len(inflight) THEN inflight'[Len(inflight')]
              ELSE last'
    IN  IF Len(inflight') <= Len(inflight) /\ ~AnsweredAtOnce THEN <<>>
        ELSE IF ex.route = "batch" /\ ex.gen = "registry" THEN <<>>
        ELSE ex.reqs

\* C9: each initialize request adds exactly one session under an id that
\* was not in the map and leaves the existing sessions unchanged; a session
\* leaves the map only in a DELETE /mcp that names its id, and no other
\* request removes or alters it.
C9_Sessions ==
    [][ LET added == DOMAIN sessions' \ DOMAIN sessions
            removed == DOMAIN sessions \ DOMAIN sessions'
        IN  /\ \A k \in DOMAIN sessions \cap DOMAIN sessions' : sessions'[k] = sessions[k]
            /\ Cardinality(added) = Initializes(Dispatched)
            /\ removed # {} => /\ last'.route = "delete"
                                /\ removed = {last'.sid}
                                /\ added = {}
            /\ last'.route # "delete" => removed = {} ]_vars

\* C9 witness: two initialize requests have left two sessions, one of them
\* created while the other existed, and a request that is not an initialize
\* was answered since
C9_Witness ==
    /\ Cardinality(DOMAIN sessions) = 2
    /\ last.route \in {"single", "batch"}
    /\ last.reqs # <<>>
    /\ Initializes(last.reqs) = 0

\* C10: DELETE /mcp answers 204; with a missing or unknown session id it
\* leaves the session map as it is, with a known id it removes that session
\* and no other, so that a second DELETE of the id changes nothing.
C10_Delete ==
    /\ [](last.route = "delete" =>
              last.reply.status = 204 /\ last.sid \notin DOMAIN sessions)
    /\ [][ last'.route = "delete" =>
              /\ DOMAIN sessions' = DOMAIN sessions \ {last'.sid}
              /\ \A k \in DOMAIN sessions' : sessions'[k] = sessions[k]
              /\ (last'.sid = NoSession \/ last'.sid \notin DOMAIN sessions)
                     => sessions' = sessions ]_vars

\* C10 witness: a DELETE removed one of two sessions and the other is there
C10_Witness ==
    /\ last.route = "delete"
    /\ last.sid \in issued
    /\ last.sid \notin DOMAIN sessions
    /\ Cardinality(DOMAIN sessions) = 1

-----------------------------------------------------------------------------
(* Claims about sessions and the tool list, checked under SpecTools and   *)
(* SpecMcp.                                                               *)

\* What handleMcpRequest makes of req when the session map is empty
Sessionless(gen, req) ==
    MapRequests(<<req>>, gen, externalToolsMap,
                [sessions |-> << >>, editor |-> editor, ids |-> << >>, now |-> 1]).els

\* C11: the response to tools/call, tools/list and ping is the one the bridge
\* gives with an empty session map and no Mcp-Session-Id header, whatever
\* sessions exist and whatever id the header carries; such a request leaves
\* the session map as it is.
C11_NoSessionNeeded ==
    [][ /\ ( /\ AnsweredAtOnce
              /\ last'.route = "single"
              /\ last'.reqs[1].method \in {"tools/call", "tools/list", "ping"} )
            => /\ last'.reply = ReplySingle([els |-> Sessionless(last'.gen, last'.reqs[1])])
               /\ sessions' = sessions
        /\ ( /\ Len(inflight') > Len(inflight)
              /\ inflight'[Len(inflight')].route = "single" )
            => /\ inflight'[Len(inflight')].els =
                      Sessionless(inflight'[Len(inflight')].gen, inflight'[Len(inflight')].reqs[1])
               /\ sessions' = sessions
        /\ ( /\ Len(inflight') < Len(inflight)
              /\ last'.route = "single"
              /\ last'.calls[1].pc = "done" )
            => /\ last'.reply.body =
                      <<ToolsCallResponse(last'.reqs[1].id, last'.calls[1].env)>>
               /\ sessions' = sessions ]_vars

\* C11 witness: a tools/call that carried the id of a deleted session, sent
\* while another session existed, was executed
C11_Witness ==
    /\ last.route = "single"
    /\ last.reqs[1].method = "tools/call"
    /\ last.reqs[1].name = "GetActiveEditor"
    /\ last.sid \in issued \ DOMAIN sessions
    /\ Cardinality(DOMAIN sessions) = 1
    /\ last.calls[1].invoked = <<"builtin">>
    /\ last.reply.status = 200

\* C12: the id of every session an initialize request creates is in the
\* Mcp-Session-Id header of the response to that request, for a single
\* request and for an element of a list.
C12_SessionIdSurfaced ==
    last.route \in {"single", "batch"}
        => \A i \in 1..Len(last.results) :
               last.results[i].sessionId # NoSession
                   => last.reply.header = last.results[i].sessionId

\* The answered exchange is a tools/list or a GET /tools
IsToolList(exchange) ==
    \/ exchange.route = "tools"
    \/ /\ exchange.route = "single"
       /\ exchange.reqs[1].jsonrpc = "2.0"
       /\ exchange.reqs[1].method = "tools/list"

\* The entries of the tool list of an answered exchange
Listed(exchange) == exchange.reply.body[1].result.tools

\* C13: tools/list and GET /tools give the built-in tools followed by the
\* external tools of the map, in that order; the length of the list is the
\* number of built-in tools plus the number of external tools registered.
C13_ListIsBuiltinsThenExternals ==
    IsToolList(last)
        => /\ Len(Listed(last)) = Len(ToolsInOrder) + Len(externalToolsMap)
           /\ \A i \in 1..Len(ToolsInOrder) : Listed(last)[i].name = ToolsInOrder[i]
           /\ \A j \in 1..Len(externalToolsMap) :
                  Listed(last)[Len(ToolsInOrder) + j].name = externalToolsMap[j].name

\* C13 witness: a list was given while two external tools were registered
C13_Witness ==
    /\ IsToolList(last)
    /\ Len(externalToolsMap) = 2
    /\ Len(Listed(last)) = Len(ToolsInOrder) + 2

\* The names of the external tools of a map
MapNames(map) == {map[i].name : i \in 1..Len(map)}

\* The names of a sequence of names
NamesOf(names) == {names[i] : i \in 1..Len(names)}

C15_UniqueNames ==
    IsToolList(last)
        => \A i, j \in 1..Len(Listed(last)) :
               i # j => Listed(last)[i].name # Listed(last)[j].name

-----------------------------------------------------------------------------
(* Claims: the ports and the lifecycle of the bridge, under SpecHost.     *)

\* The calls of main.js that wait in findAvailablePort
Searching == {t \in 1..Len(tasks) : tasks[t].op \in {"autoStart", "start"}}

\* The ports start, start+1, ... that n probes have tried, in their order
PortsFrom(start, n) == [i \in 1..n |-> start + i - 1]

\* C16: findAvailablePort(start, host, maxAttempts) probes start, start+1,
\* ... one at a time in increasing order and returns the first port whose
\* throwaway bind succeeds: the returned port p has start <= p < start +
\* maxAttempts and every port of [start, p) was found in use; when all
\* maxAttempts probes fail it raises an error naming the start port and the
\* number of attempts, and it never probes a port at or beyond start +
\* maxAttempts.
C16_FindAvailablePort ==
    [][\A t \in Searching :
          Probe(t) =>
            LET start == tasks[t].startPort
                found == tasks[t].probed
                p == start + Len(found)
                free == CanBind(p, taken, servers)
            IN  /\ found = PortsFrom(start, Len(found))
                /\ p < start + MaxAttempts
                /\ free <=> /\ Len(servers') = Len(servers) + 1
                            /\ servers'[Len(servers')].port = p
                /\ free => start <= p
                /\ (~free /\ Len(found) + 1 < MaxAttempts) <=>
                       /\ Len(tasks') = Len(tasks)
                       /\ tasks'[t].probed = Append(found, p)
                /\ (~free /\ Len(found) + 1 = MaxAttempts) <=>
                       /\ Len(tasks') < Len(tasks)
                       /\ servers' = servers
                /\ (~free /\ Len(found) + 1 = MaxAttempts) =>
                       notice'.error = PortError(start, MaxAttempts)]_vars

\* A start has run out of ports, and a later one has found the second port
\* after the first was in use
C16_Witness ==
    /\ notice.error = PortError(DEFAULT_PORT, MaxAttempts)
    /\ \E s \in 1..Len(servers) :
          servers[s].port = DEFAULT_PORT + 1 /\ servers[s].st = "listening"

\* C17: the probe/bind race does not crash the host: when another process
\* binds the chosen port after the probe of findAvailablePort has released
\* it and before the listener of the bridge binds it, the failure of the
\* bind is not left as an unhandled error.
C17_BindFailureHandled == ~unhandled

\* The servers that listen or are about to
Alive == {s \in 1..Len(servers) : servers[s].st \in {"binding", "listening"}}

\* C18: at most one bridge exists per editor process: under any
\* interleaving of activate (auto-start), the start command, the stop
\* command and deactivate, commands issued while a start or stop is pending
\* included, the host never has two listeners alive at once and never loses
\* track of a listener it started.
C18_OneBridge ==
    /\ Cardinality(Alive) <= 1
    /\ \A s \in Alive : bridge = s

\* The step is the maxAttempts-th failed probe of call t
Exhausts(t) ==
    /\ Probe(t)
    /\ Len(tasks[t].probed) + 1 = MaxAttempts
    /\ ~CanBind(ProbedPort(tasks[t].startPort, tasks[t].probed), taken, servers)

Stopping == {t \in 1..Len(tasks) : tasks[t].op \in {"stop", "deactivate"}}

\* C20: stop() is a graceful close: it resolves only after every request
\* that was in flight when stop was called has been answered, it rejects
\* with the close error when closing fails (the server was not running), and
\* once it has resolved the listener serves no further request.
C20_GracefulStop ==
    /\ [](\A k \in 1..Len(conns) : servers[conns[k]].st \in {"listening", "closing"})
    /\ [][/\ \A t \in Stopping :
                CloseDone(t) =>
                   /\ \A k \in 1..Len(conns) : conns[k] # tasks[t].server
                   /\ tasks[t].op = "stop" =>
                         (tasks[t].err <=> notice'.error.name = "ERR_SERVER_NOT_RUNNING")
          /\ Len(tasks') > Len(tasks) /\ tasks'[Len(tasks')].op \in {"stop", "deactivate"} =>
                LET new == tasks'[Len(tasks')]
                IN  /\ new.server = bridge
                    /\ new.err <=> servers[bridge].st # "listening"
                    /\ servers'[bridge].st # "listening"
          /\ Len(conns') > Len(conns) => servers[conns'[Len(conns')]].st = "listening"
          /\ \A s \in 1..Len(servers) :
                servers[s].st \in {"closing", "closed", "failed"} =>
                    servers'[s].st \in {"closing", "closed", "failed"}]_vars

\* The stop command was given while a request was in flight: the server is
\* closing and the call of stop waits for the request
C20_Witness ==
    \E t \in Stopping :
        /\ tasks[t].op = "stop"
        /\ ~tasks[t].err
        /\ servers[tasks[t].server].st = "closing"
        /\ \E k \in 1..Len(conns) : conns[k] = tasks[t].server

-----------------------------------------------------------------------------
(* Claims about the HTTP interface                                        *)

\* The exchanges in flight one of whose calls never completes
Hung ==
    {k \in 1..Len(inflight) : \E i \in 1..Len(inflight[k].els) : inflight[k].els[i].st = "hung"}

\* The exchanges in flight one of whose calls is suspended and will complete
Resuming ==
    {k \in 1..Len(inflight) : \E i \in 1..Len(inflight[k].els) : inflight[k].els[i].st = "pending"}

\* The POST /mcp requests of HttpInputs that carry one JSON-RPC 2.0 request
\* of the method, naming the tool
McpInputs(method, tool) ==
    {in \in HttpInputs :
        /\ in.verb = "POST" /\ in.target.path = "/mcp" /\ in.body.kind = "object"
        /\ in.body.reqs[1].jsonrpc = "2.0"
        /\ in.body.reqs[1].method = method
        /\ in.body.reqs[1].name = tool}

\* The request comes in and its handler runs to its first suspension
Receives(gen, in) ==
    HttpRequest(gen, in.verb, in.target, in.sid, in.body) /\ Connection(bridge)

\* C21: while a tool call never completes, the other requests received
\* meanwhile are still answered (ping, tools/list, GET /health and DELETE
\* /mcp at once, another tools/call as soon as its own tool procedure
\* completes), and only a request that holds a hung or suspended call is
\* without a response: the request of the hung call stays in flight,
\* unanswered.
C21_HungBlocksOnlyItsRequest ==
    /\ \A k \in 1..Len(inflight) : ~inflight[k].answered => k \in Hung \cup Resuming
    /\ \A k \in Hung : ~inflight[k].answered
    /\ Hung # {} =>
          /\ Resuming = {} =>
               \A gen \in Generations :
                  /\ \A in \in McpInputs("ping", "") \cup McpInputs("tools/list", "") :
                        ENABLED (/\ Receives(gen, in)
                                 /\ last'.reply.status = 200
                                 /\ last'.reply.body[1].id = in.body.reqs[1].id
                                 /\ inflight' = inflight)
                  /\ \A in \in {h \in HttpInputs : h.verb \in {"GET", "DELETE"} /\ h.target.valid} :
                        ENABLED (/\ Receives(gen, in)
                                 /\ last'.reply.status \in {200, 204}
                                 /\ inflight' = inflight)
                  /\ \A in \in McpInputs("tools/call", "OpenFile") :
                        ENABLED (/\ Receives(gen, in)
                                 /\ Resuming' # {}
                                 /\ Hung' = Hung)
          /\ \A k \in Resuming \ Hung :
               \E i \in 1..Len(inflight[k].els) :
                  ENABLED (/\ \E outcome \in OutcomesMcp(inflight[k].els[i].call) :
                                 Settle(k, i, outcome)
                           /\ Completion(k)
                           /\ last'.reqs = inflight[k].reqs
                           /\ last'.reply.status = 200
                           /\ Hung' # {})

\* A call hangs, and a tools/call received after it has been answered
C21_Witness ==
    /\ Hung # {}
    /\ last.route = "single"
    /\ last.reqs # <<>>
    /\ last.reqs[1].method = "tools/call"
    /\ last.calls[1].pc = "done"
    /\ last.reply.status = 200

\* POST /tools/:toolName with a segment the pattern does not match
Unmatched == {in \in HttpInputs : in.verb = "POST" /\ in.target.path = "/tools/" /\ ~ToolMatch(in.target)}

Unparseable ==
    {in \in HttpInputs : in.verb = "POST" /\ in.target.path = "/mcp" /\ in.body.kind = "invalid"}

\* C23: a POST /mcp whose body cannot be parsed as JSON is answered 400
\* with one JSON-RPC error of code -32700 and a null id, without the
\* session header; no session is created or removed and no tool runs.
C23_ParseError ==
    /\ [](last.route = "parse" =>
            /\ last.reply.status = 400
            /\ Len(last.reply.body) = 1
            /\ last.reply.body[1].kind = "error"
            /\ last.reply.body[1].code = -32700
            /\ last.reply.body[1].id = NullId
            /\ last.reply.header = NoSession
            /\ last.calls = <<>>)
    /\ [][\A gen \in Generations, in \in Unparseable :
             Receives(gen, in) =>
                 /\ last'.route = "parse"
                 /\ sessions' = sessions /\ issued' = issued
                 /\ editor' = editor /\ inflight' = inflight]_vars

\* A body that is not JSON was answered while a session was open
C23_Witness ==
    /\ last.route = "parse"
    /\ last.reply.status = 400
    /\ DOMAIN sessions # {}

\* POST /mcp with one request object whose jsonrpc member is not "2.0"
WrongVersion ==
    {in \in HttpInputs :
        /\ in.verb = "POST" /\ in.target.path = "/mcp" /\ in.body.kind = "object"
        /\ in.body.reqs[1].jsonrpc # "2.0"}

\* C24: a request object whose jsonrpc member is missing or is not "2.0"
\* is answered with the JSON-RPC error -32600 under its own id, whatever
\* its method; it creates no session and executes no tool.  A list given to
\* the bridge without batching is such an object.
C24_InvalidRequest ==
    /\ [](/\ last.route \in {"single", "batch"} /\ Len(last.results) = Len(last.reqs) =>
               \A i \in 1..Len(last.reqs) :
                   last.reqs[i].jsonrpc # "2.0" =>
                       /\ last.results[i].hasResponse
                       /\ last.results[i].response.kind = "error"
                       /\ last.results[i].response.code = -32600
                       /\ last.results[i].response.id = last.reqs[i].id
                       /\ last.results[i].sessionId = NoSession
                       /\ last.calls[i] = NoCall
          /\ last.route = "batch" /\ last.gen = "registry" =>
               /\ last.results[1].response.kind = "error"
               /\ last.results[1].response.code = -32600
               /\ last.calls = <<NoCall>>)
    /\ [][\A gen \in Generations, in \in WrongVersion :
             Receives(gen, in) =>
                 /\ last'.reqs = in.body.reqs
                 /\ last'.reply.status = 200
                 /\ last'.reply.header = NoSession
                 /\ sessions' = sessions /\ issued' = issued
                 /\ editor' = editor /\ inflight' = inflight]_vars

\* An initialize without the jsonrpc member was answered -32600
C24_Witness ==
    /\ last.route = "single"
    /\ last.reqs # <<>>
    /\ last.reqs[1].jsonrpc = ""
    /\ last.reqs[1].method = "initialize"
    /\ last.reply.body[1].code = -32600

\* The methods handleMcpRequest dispatches
KnownMethods == {"initialize", "notifications/initialized", "tools/list", "tools/call", "ping"}

\* C25: a JSON-RPC 2.0 request whose method is none of initialize,
\* notifications/initialized, tools/list, tools/call and ping is answered
\* with the JSON-RPC error -32601 under its id, and leaves the session map
\* and the tool maps as they were.
C25_MethodNotFound ==
    /\ [](last.route \in {"single", "batch"} /\ Len(last.results) = Len(last.reqs) =>
             \A i \in 1..Len(last.reqs) :
                 last.reqs[i].jsonrpc = "2.0" /\ last.reqs[i].method \notin KnownMethods =>
                     /\ last.results[i].hasResponse
                     /\ last.results[i].response.kind = "error"
                     /\ last.results[i].response.code = -32601
                     /\ last.results[i].response.id = last.reqs[i].id
                     /\ last.calls[i] = NoCall)
    /\ [][\A gen \in Generations, in \in McpInputs("foo", "") :
             Receives(gen, in) =>
                 /\ last'.reqs = in.body.reqs
                 /\ last'.reply.status = 200
                 /\ sessions' = sessions /\ issued' = issued
                 /\ externalToolsMap' = externalToolsMap /\ disposables' = disposables
                 /\ editor' = editor /\ inflight' = inflight]_vars

\* The method foo was answered -32601 while a session was open and an
\* external tool registered
C25_Witness ==
    /\ last.route = "single"
    /\ last.reqs # <<>>
    /\ last.reqs[1].method = "foo"
    /\ last.reply.body[1].code = -32601
    /\ DOMAIN sessions # {}
    /\ externalToolsMap # <<>>

\* C26: a tools/call whose params carry no tool name is answered with the
\* JSON-RPC error -32602 under its id, and no tool procedure, built-in or
\* external, is invoked: no call is made and the editor is untouched.
C26_MissingToolName ==
    /\ [](last.route \in {"single", "batch"} /\ Len(last.results) = Len(last.reqs) =>
             \A i \in 1..Len(last.reqs) :
                 /\ last.reqs[i].jsonrpc = "2.0"
                 /\ last.reqs[i].method = "tools/call"
                 /\ last.reqs[i].name = ""
                 => /\ last.results[i].hasResponse
                    /\ last.results[i].response.kind = "error"
                    /\ last.results[i].response.code = -32602
                    /\ last.results[i].response.id = last.reqs[i].id
                    /\ last.calls[i] = NoCall
                    /\ last.calls[i].invoked = <<>>)
    /\ [][\A gen \in Generations, in \in McpInputs("tools/call", "") :
             Receives(gen, in) =>
                 /\ last'.reqs = in.body.reqs
                 /\ last'.reply.status = 200
                 /\ editor' = editor /\ inflight' = inflight]_vars

\* A tools/call without a name was answered -32602 while an external tool
\* was registered
C26_Witness ==
    /\ last.route = "single"
    /\ last.reqs # <<>>
    /\ last.reqs[1].method = "tools/call"
    /\ last.reqs[1].name = ""
    /\ last.reply.body[1].code = -32602
    /\ externalToolsMap # <<>>

\* C27: every request is answered, whatever its method, URL or body: an
\* exception raised while routing or handling it is caught by the request
\* handler and turned into a 500 that carries its message, so no request is
\* left without a response.
C27_EveryRequestAnswered ==
    last.route # "none" =>
        /\ last.reply.status \in {200, 202, 204, 400, 404, 500}
        /\ last.reply.status = 500 => last.reply.message # ""

-----------------------------------------------------------------------------
(* Claims about the stdio relay, checked under SpecRelay *)

\* The lines that parse and have no id: JSON values that are not objects,
\* and objects without the member
Notifications == {line \in RelayLines : line.kind # "invalid" /\ ~(line.kind = "object" /\ line.hasId)}

\* C28: for a parsed line that lacks an id the relay writes nothing to
\* standard output and dispatches nothing, whatever the method: no line is
\* added, no request is pending for it and no fetch is made.
C28_NotificationsSilent ==
    [][\A line \in Notifications :
          RelayLine(line) =>
              /\ relay'.stdout = relay.stdout
              /\ relay'.pending = relay.pending
              /\ relay'.fetches = relay.fetches
              /\ relay'.read = relay.read + 1]_vars

\* Two lines were read, and the relay, still running, has written and
\* dispatched nothing
C28_Witness ==
    /\ relay.read = 2
    /\ ~relay.crashed
    /\ relay.stdout = << >>
    /\ relay.pending = << >>
    /\ relay.fetches = 0

\* C29: every line that parses and carries an id gets its line on standard
\* output: the relay does not end while a request it has accepted waits
\* for the bridge.
C29_EveryRequestAnswered == relay.crashed => relay.pending = << >>

\* C30: a line that is not JSON makes the relay write exactly one line, an
\* error of code -32700 with a null id, make no request to the bridge, and
\* go on reading.
C30_ParseErrorLine ==
    [][\A line \in {l \in RelayLines : l.kind = "invalid"} :
          RelayLine(line) =>
              LET n == Len(relay'.stdout)
              IN  /\ n = Len(relay.stdout) + 1
                  /\ SubSeq(relay'.stdout, 1, n - 1) = relay.stdout
                  /\ relay'.stdout[n].kind = "error"
                  /\ relay'.stdout[n].code = -32700
                  /\ relay'.stdout[n].id = NullId
                  /\ relay'.pending = relay.pending
                  /\ relay'.fetches = relay.fetches
                  /\ ~relay'.crashed]_vars

\* The relay answered a line that is not JSON and then a request
C30_Witness ==
    /\ Len(relay.stdout) = 2
    /\ relay.stdout[1].code = -32700
    /\ relay.stdout[1].id = NullId
    /\ relay.stdout[2].kind = "result"
    /\ relay.stdout[2].id = 1
    /\ relay.fetches = 0

-----------------------------------------------------------------------------
(* Further claims about the host package, checked under SpecHost *)

\* C33: once deactivate() has run and every pending start, stop and bind
\* has finished, the host holds no bridge handle (isRunning() is false)
\* and no listener of the bridge is running, also when deactivate was
\* called while a startBridge call was pending.
C33_StoppedAfterDeactivate ==
    ~active /\ tasks = << >> /\ NoneBinding =>
        /\ bridge = NoBridge
        /\ \A s \in 1..Len(servers) : servers[s].st # "listening"

\* C39: the bridge handle and the bridge port are set and cleared together:
\* getBridgePort() is non-null exactly when isRunning() is true, it is the
\* port of the server of the handle, and when stopBridge() has finished
\* both are null, also when closing the listener failed.
C39_HandleAndPortTogether ==
    /\ [](/\ bridge = NoBridge <=> bridgePort = NoPort
          /\ bridge # NoBridge => bridgePort = servers[bridge].port)
    /\ [][\A t \in Stopping :
             CloseDone(t) => bridge' = NoBridge /\ bridgePort' = NoPort]_vars

\* stopBridge() has finished with the close error of a server that was not
\* running: handle and port are both null
C39_Witness ==
    /\ notice.kind = "stopped"
    /\ notice.error.name = "ERR_SERVER_NOT_RUNNING"
    /\ bridge = NoBridge
    /\ bridgePort = NoPort

-----------------------------------------------------------------------------
(* Claims about providers of external tools, checked under SpecProviders *)

\* C34: disposing the handle of one consumeMcpTools call removes only the
\* tools of that call: every tool a handle not yet disposed has registered
\* is in the external tool map, listed and callable.
C34_DisposeRemovesOwnTools ==
    \A d \in 1..Len(disposables) :
        \A i \in 1..Len(disposables[d]) : disposables[d][i] \in MapNames(externalToolsMap)

\* C40: every entry of the external tool map has a name, is the only entry
\* of that name and has an execute procedure; a consumeMcpTools call
\* registers every definition of its array that has both and nothing else,
\* and a value that is not an array leaves map and handles as they were.
C40_MapHoldsValidTools ==
    /\ [](\A i \in 1..Len(externalToolsMap) :
             /\ externalToolsMap[i].name # ""
             /\ externalToolsMap[i].hasExecute
             /\ \A j \in 1..Len(externalToolsMap) :
                   externalToolsMap[j].name = externalToolsMap[i].name => j = i)
    /\ [][\A tools \in ArraysUpTo({ExternalTool("Ext", "", "", "undefined", TRUE),
                                   ExternalTool("my_tool", "", "", "undefined", TRUE),
                                   ExternalTool("", "", "", "undefined", TRUE),
                                   ExternalTool("Broken", "", "", "undefined", FALSE)},
                                  MaxListed) :
             /\ ConsumeMcpTools(FALSE, tools) =>
                   externalToolsMap' = externalToolsMap /\ disposables' = disposables
             /\ ConsumeMcpTools(TRUE, tools) =>
                   LET valid == {tools[k].name : k \in {n \in 1..Len(tools) :
                                     tools[n].name # "" /\ tools[n].hasExecute}}
                   IN  MapNames(externalToolsMap') = MapNames(externalToolsMap) \cup valid]_vars

\* Two calls have registered one tool each
C40_Witness ==
    /\ Len(externalToolsMap) = 2
    /\ Len(disposables) = 2

\* C35: every name the tool list holds, built-in or external, can be
\* called through the relay: the POST /tools/:name the relay forwards for a
\* listed name is never answered 404.
C35_ListedToolsReachBridge ==
    last.route = "notfound" /\ last.reqs # << >>
        => last.reqs[1].name \notin BuiltinNames(last.gen) \cup MapNames(externalToolsMap)

-----------------------------------------------------------------------------
(* Further claims about POST /mcp, checked under SpecHttp *)

\* C36: a request object without an id member gets no response object,
\* whatever its method: alone it is answered 202 with an empty body, and in
\* a list it adds no entry to the reply.
C36_NotificationsUnanswered ==
    last.route \in {"single", "batch"} /\ last.gen = "tools" /\ Len(last.results) = Len(last.reqs)
        => /\ \A i \in 1..Len(last.reqs) :
                 last.reqs[i].id = NoId => ~last.results[i].hasResponse
           /\ (\A i \in 1..Len(last.reqs) : last.reqs[i].id = NoId) =>
                 last.reply.status = 202 /\ last.reply.body = << >>

\* C37: a POST /mcp whose body is valid JSON is answered 200 with a
\* JSON-RPC response or list of responses, or 202; it is never answered
\* 500, whatever JSON value the body holds.
C37_ValidJsonNever500 ==
    last.route \in {"single", "batch", "threw"} => last.reply.status \in {200, 202}

-----------------------------------------------------------------------------
(* Claims about the relay and the bridge it asks, checked under SpecRelay *)

\* The text the relay sends when the health probe fails
NotAvailable ==
    "Pulsar bridge not available at http://127.0.0.1:3000. "
        \o "Make sure Pulsar is running with the pulsar-mcp package activated."

\* The line the step has added to standard output
Written == relay'.stdout[Len(relay'.stdout)]

\* The step has taken request p off the pending ones and written one line
AnsweredOnce(p) ==
    /\ Len(relay'.stdout) = Len(relay.stdout) + 1
    /\ SubSeq(relay'.stdout, 1, Len(relay.stdout)) = relay.stdout
    /\ relay'.pending = RemoveAt(relay.pending, p)
    /\ Written.id = relay.pending[p].req.id

\* C31: tools/list and tools/call start with the health probe; a failed
\* probe is answered with the error -32603 that names host and port and no
\* further fetch is made for the request; GET /tools or POST /tools/:name
\* is fetched only after a probe that succeeded.
C31_ProbeFirst ==
    /\ [][\A line \in RelayLines :
             RelayLine(line) /\ Len(relay'.pending) > Len(relay.pending) =>
                 /\ line.method \in {"tools/list", "tools/call"}
                 /\ relay'.pending[Len(relay'.pending)].pc = "health"
                 /\ relay'.fetches = relay.fetches + 1]_vars
    /\ [][\A p \in 1..Len(relay.pending), reply \in BridgeReplies :
             RelayResume(p, reply) /\ relay.pending[p].pc = "health" =>
                 IF reply.reached /\ reply.ok
                 THEN /\ relay'.fetches = relay.fetches + 1
                      /\ relay'.stdout = relay.stdout
                      /\ relay'.pending =
                            [relay.pending EXCEPT ![p].pc =
                                IF relay.pending[p].req.method = "tools/list"
                                THEN "tools" ELSE "call"]
                 ELSE /\ relay'.fetches = relay.fetches
                      /\ AnsweredOnce(p)
                      /\ Written.kind = "error"
                      /\ Written.code = -32603
                      /\ Written.message = NotAvailable]_vars
    /\ [][\A p \in 1..Len(relay.pending), reply \in BridgeReplies :
             RelayResume(p, reply) /\ relay.pending[p].pc # "health" =>
                 relay'.fetches = relay.fetches]_vars

\* One request was read and answered that the bridge is not available,
\* after the probe and no other fetch
C31_Witness ==
    /\ relay.read = 1
    /\ relay.fetches = 1
    /\ Len(relay.stdout) = 1
    /\ relay.stdout[1].code = -32603
    /\ relay.stdout[1].message = NotAvailable

C38_ForwardingFailureAnswered ==
    /\ [](Len(relay.stdout) + Len(relay.pending) <= relay.read)
    /\ [][\A p \in 1..Len(relay.pending),
            reply \in {r \in BridgeReplies : ~r.reached \/ ~r.json \/ ~r.ok} :
             RelayResume(p, reply) /\ relay.pending[p].pc \in {"tools", "call"} =>
                 /\ AnsweredOnce(p)
                 /\ Written.kind = "error"
                 /\ Written.code = -32603
                 /\ ~relay'.crashed
                 /\ relay'.read = relay.read]_vars

\* The fetch after the probe failed, the request was answered with the
\* error, and a request read later got its result
C38_Witness ==
    /\ ~relay.crashed
    /\ relay.read = 2
    /\ relay.fetches = 2
    /\ Len(relay.stdout) = 2
    /\ relay.stdout[1].kind = "error"
    /\ relay.stdout[1].message = "fetch failed"
    /\ relay.stdout[2].kind = "result"

====
